---- MODULE Spec2Model ----
(***************************************************************************)
(* The intelligence graph engine of OSINT-ThreatLink module 2              *)
(* (src/parser_correlator.py): the entity / relationship store with its    *)
(* value index, the six source parsers, the three correlation passes and   *)
(* the DataCorrelator pipeline that drives them.                           *)
(*                                                                         *)
(* A Python str is a sequence of one-character strings, so that strip,     *)
(* lower, split, `in` and the two regular expressions are computed, not    *)
(* assumed.  A dict is the sequence of its items in insertion order.  A    *)
(* confidence is an integer number of hundredths (0.95 is 95).             *)
(***************************************************************************)
EXTENDS Integers, Sequences, FiniteSets, TLC

(***************************************************************************)
(* str methods                                                             *)
(***************************************************************************)
UpperCase == <<"A","B","C","D","E","F","G","H","I","J","K","L","M",
               "N","O","P","Q","R","S","T","U","V","W","X","Y","Z">>
LowerCase == <<"a","b","c","d","e","f","g","h","i","j","k","l","m",
               "n","o","p","q","r","s","t","u","v","w","x","y","z">>
Digits == <<"0","1","2","3","4","5","6","7","8","9">>
HexDigits == <<"0","1","2","3","4","5","6","7","8","9","a","b","c","d","e","f">>
Whitespace == {" ", "\t", "\n", "\r"}

Range(s) == {s[i] : i \in 1..Len(s)}
Letters == Range(UpperCase) \cup Range(LowerCase)

\* str.lower() on one character
lower_char(c) ==
    IF \E i \in 1..26 : UpperCase[i] = c
    THEN LowerCase[CHOOSE i \in 1..26 : UpperCase[i] = c]
    ELSE c

\* str.lower()
RECURSIVE lower(_)
lower(s) == IF s = <<>> THEN <<>> ELSE <<lower_char(Head(s))>> \o lower(Tail(s))

\* str.lstrip()
RECURSIVE lstrip(_)
lstrip(s) == IF s # <<>> /\ Head(s) \in Whitespace THEN lstrip(Tail(s)) ELSE s

\* str.rstrip(chars): drops the trailing characters that are in chars
RECURSIVE rstrip(_, _)
rstrip(s, chars) ==
    IF s # <<>> /\ s[Len(s)] \in chars THEN rstrip(SubSeq(s, 1, Len(s) - 1), chars) ELSE s

\* str.strip()
strip(s) == rstrip(lstrip(s), Whitespace)

\* sub in s
Contains(sub, s) ==
    \E i \in 0..(Len(s) - Len(sub)) : SubSeq(s, i + 1, i + Len(sub)) = sub

\* s.startswith(prefix)
StartsWith(s, prefix) ==
    Len(prefix) <= Len(s) /\ SubSeq(s, 1, Len(prefix)) = prefix

\* s.split(c): the pieces between the occurrences of the character c
RECURSIVE Split(_, _)
Split(s, c) ==
    IF \E i \in 1..Len(s) : s[i] = c
    THEN LET i == CHOOSE j \in 1..Len(s) : s[j] = c /\ \A k \in 1..(j - 1) : s[k] # c
         IN  <<SubSeq(s, 1, i - 1)>> \o Split(SubSeq(s, i + 1, Len(s)), c)
    ELSE <<s>>

\* s.split(c, 1): at most one split, at the first occurrence of c
Split1(s, c) ==
    IF \E i \in 1..Len(s) : s[i] = c
    THEN LET i == CHOOSE j \in 1..Len(s) : s[j] = c /\ \A k \in 1..(j - 1) : s[k] # c
         IN  <<SubSeq(s, 1, i - 1), SubSeq(s, i + 1, Len(s))>>
    ELSE <<s>>

(***************************************************************************)
(* Utilities (src/parser_correlator.py:41-50)                              *)
(***************************************************************************)
\* the 8 hexadecimal digits of n, most significant first
RECURSIVE HexOf(_, _)
HexOf(n, length) ==
    IF length = 0 THEN <<>>
    ELSE HexOf(n \div 16, length - 1) \o <<HexDigits[(n % 16) + 1]>>

HexLength == 8

\* _short_id(prefix): prefix + uuid4().hex[:8]; draw is the number of uuid4
\* draws made so far, each draw yielding a value not drawn before
short_id(prefix, draw) == prefix \o HexOf(draw, HexLength)

\* _normalize_value(value)
normalize_value(value) == lower(strip(value))

None == <<>>
NoMeta == <<>>

\* dict.update(): the keys of new win
Update(old, new) ==
    [k \in (DOMAIN old) \cup (DOMAIN new) |-> IF k \in DOMAIN new THEN new[k] ELSE old[k]]

(***************************************************************************)
(* String literals of the source                                           *)
(***************************************************************************)
\* entity types
T_domain == <<"d","o","m","a","i","n">>
T_subdomain == <<"s","u","b","d","o","m","a","i","n">>
T_ip_address == <<"i","p","_","a","d","d","r","e","s","s">>
T_mail_server == <<"m","a","i","l","_","s","e","r","v","e","r">>
T_nameserver == <<"n","a","m","e","s","e","r","v","e","r">>
T_txt_record == <<"t","x","t","_","r","e","c","o","r","d">>
T_dns_record == <<"d","n","s","_","r","e","c","o","r","d">>
T_email == <<"e","m","a","i","l">>
T_username == <<"u","s","e","r","n","a","m","e">>
T_url == <<"u","r","l">>
T_social_profile == <<"s","o","c","i","a","l","_","p","r","o","f","i","l","e">>

\* relationship types
R_subdomain_of == <<"s","u","b","d","o","m","a","i","n","_","o","f">>
R_registered_to == <<"r","e","g","i","s","t","e","r","e","d","_","t","o">>
R_hosted_on == <<"h","o","s","t","e","d","_","o","n">>
R_associated_with == <<"a","s","s","o","c","i","a","t","e","d","_","w","i","t","h">>
R_username_of == <<"u","s","e","r","n","a","m","e","_","o","f">>
R_profile_of == <<"p","r","o","f","i","l","e","_","o","f">>
R_email_from_subdomain == <<"e","m","a","i","l","_","f","r","o","m","_","s","u","b","d","o","m","a","i","n">>
R_same_username == <<"s","a","m","e","_","u","s","e","r","n","a","m","e">>

\* source labels
S_user_input == <<"u","s","e","r","_","i","n","p","u","t">>
S_subfinder == <<"s","u","b","f","i","n","d","e","r">>
S_dns_lookup == <<"d","n","s","_","l","o","o","k","u","p">>
S_whois == <<"w","h","o","i","s">>
S_httpx == <<"h","t","t","p","x">>
S_theharvester == <<"t","h","e","h","a","r","v","e","s","t","e","r">>
S_sherlock == <<"s","h","e","r","l","o","c","k">>
S_derived == <<"_","d","e","r","i","v","e","d">>

(***************************************************************************)
(* Data models (src/parser_correlator.py:55-94)                            *)
(***************************************************************************)
\* Entity(id, type, value, source, timestamp, metadata)
Entity(id, type, value, source, timestamp, metadata) ==
    [id |-> id, type |-> type, value |-> value, source |-> source,
     timestamp |-> timestamp, metadata |-> metadata]

\* Relationship.__post_init__: the range check on confidence (hundredths)
confidence_in_range(confidence) == 0 <= confidence /\ confidence <= 100

\* Relationship(id, source_id, target_id, relationship_type, confidence, metadata)
Relationship(id, source_id, target_id, relationship_type, confidence, metadata) ==
    [id |-> id, source_id |-> source_id, target_id |-> target_id,
     relationship_type |-> relationship_type, confidence |-> confidence,
     metadata |-> metadata]

(***************************************************************************)
(* dict, as the sequence of its items in insertion order                   *)
(***************************************************************************)
\* position of the item stored under id, 0 when there is none
Pos(items, id) ==
    IF \E i \in 1..Len(items) : items[i].id = id
    THEN CHOOSE i \in 1..Len(items) : items[i].id = id
    ELSE 0

\* id in d
HasId(items, id) == Pos(items, id) # 0

\* d[item.id] = item: a new id is appended, a present one keeps its place
DictSet(items, item) ==
    IF HasId(items, item.id)
    THEN [items EXCEPT ![Pos(items, item.id)] = item]
    ELSE Append(items, item)

\* a variant of index_get that never finds the key: C11 must tell it from
\* index_get
index_get_miss(index, key) == None

\* _value_index.get(key)
index_get(index, key) ==
    IF \E i \in 1..Len(index) : index[i].key = key
    THEN index[CHOOSE i \in 1..Len(index) : index[i].key = key].eid
    ELSE None

\* _value_index[key] = eid
index_set(index, key, eid) ==
    IF \E i \in 1..Len(index) : index[i].key = key
    THEN [index EXCEPT ![CHOOSE i \in 1..Len(index) : index[i].key = key] = [key |-> key, eid |-> eid]]
    ELSE Append(index, [key |-> key, eid |-> eid])

(***************************************************************************)
(* IntelligenceGraph (src/parser_correlator.py:99-227)                     *)
(*                                                                         *)
(* A graph value G holds entities, relationships and value_index, with     *)
(* draws, the number of uuid4 draws made, and clock, the number of times   *)
(* the clock was read by _now_iso.  An operation returns the graph after   *)
(* it, the value it returns and the exception it raises ("none": none).    *)
(***************************************************************************)
Result(G, id, raised) == [g |-> G, id |-> id, raised |-> raised]

\* Python computes a statement's graph before the next statement runs: the
\* value of G is computed, then that of next
Then(G, next) == IF G.draws >= 0 THEN next ELSE next

\* a variant of entity_key that forgets the type: C8 must tell it from entity_key
entity_key_untyped(entity_type, value) == <<"x", ":">> \o normalize_value(value)

\* f"{entity_type}:{norm}"
entity_key(entity_type, value) == entity_type \o <<":">> \o normalize_value(value)

\* a variant of update_existing that replaces the metadata: C17 must tell it
\* from update_existing
update_existing_replacing(entity, metadata) ==
    IF metadata # NoMeta
    THEN [entity EXCEPT !.metadata = metadata]
    ELSE entity

\* add_entity, the branch of an existing key: merge the metadata
update_existing(entity, metadata) ==
    IF metadata # NoMeta
    THEN [entity EXCEPT !.metadata = Update(@, metadata)]
    ELSE entity

\* add_entity, the branch of a key that the lookup did not find: create
create_entity(G, entity_type, value, source, metadata) ==
    LET key == entity_key(entity_type, value)
        eid == short_id(entity_type \o <<"_">>, G.draws)
        entity == Entity(eid, entity_type, value, source, G.clock, metadata)
    IN  Result([G EXCEPT !.entities = DictSet(@, entity),
                         !.value_index = index_set(@, key, eid),
                         !.draws = @ + 1,
                         !.clock = @ + 1],
               eid, "none")

\* IntelligenceGraph.add_entity
add_entity(G, entity_type, value, source, metadata) ==
    IF value = <<>>
    THEN Result(G, None, "ValueError")
    ELSE LET key == entity_key(entity_type, value)
             existing_id == index_get(G.value_index, key)
         IN  IF existing_id # None
             THEN LET i == Pos(G.entities, existing_id)
                  IN  Result([G EXCEPT !.entities[i] = update_existing(@, metadata)],
                             existing_id, "none")
             ELSE create_entity(G, entity_type, value, source, metadata)

\* a variant of endpoints_exist that is content with one endpoint: C4 must
\* tell it from endpoints_exist
endpoints_exist_either(entities, source_id, target_id) ==
    HasId(entities, source_id) \/ HasId(entities, target_id)

\* add_relationship, the validation of the endpoints
endpoints_exist(entities, source_id, target_id) ==
    HasId(entities, source_id) /\ HasId(entities, target_id)

\* a variant of same_triple that never finds the triple: C3 must tell it from
\* same_triple
same_triple_other_type(rel, source_id, target_id, rel_type) ==
    rel.source_id = source_id /\ rel.target_id = target_id /\ rel.relationship_type # rel_type

\* add_relationship, the test of the duplicate scan
same_triple(rel, source_id, target_id, rel_type) ==
    rel.source_id = source_id /\ rel.target_id = target_id /\ rel.relationship_type = rel_type

\* add_relationship, after a duplicate scan that found nothing: create
create_relationship(G, source_id, target_id, rel_type, confidence, metadata) ==
    LET rid == short_id(<<"r","e","l","_">>, G.draws)
        drawn == [G EXCEPT !.draws = @ + 1]
    IN  IF ~confidence_in_range(confidence)
        THEN Result(drawn, None, "ValueError")
        ELSE Result([drawn EXCEPT !.relationships =
                         DictSet(@, Relationship(rid, source_id, target_id,
                                                 rel_type, confidence, metadata))],
                    rid, "none")

\* a variant of merge_duplicate where the last writer's confidence wins: C26
\* must tell it from merge_duplicate
merge_duplicate_last_wins(rel, confidence, metadata) ==
    [rel EXCEPT !.confidence = IF confidence_in_range(confidence) THEN confidence ELSE @,
                !.metadata = IF metadata # NoMeta THEN Update(@, metadata) ELSE @]

\* add_relationship, the branch of a triple that the scan found: merge the
\* metadata; the confidence of the call is not read
merge_duplicate(rel, confidence, metadata) ==
    [rel EXCEPT !.metadata = IF metadata # NoMeta THEN Update(@, metadata) ELSE @]

\* IntelligenceGraph.add_relationship
add_relationship(G, source_id, target_id, rel_type, confidence, metadata) ==
    IF ~endpoints_exist(G.entities, source_id, target_id)
    THEN Result(G, None, "KeyError")
    ELSE LET rels == G.relationships
             dup == {i \in 1..Len(rels) : same_triple(rels[i], source_id, target_id, rel_type)}
         IN  IF dup # {}
             THEN LET i == CHOOSE j \in dup : \A k \in dup : j <= k
                  IN  Result([G EXCEPT !.relationships[i] =
                                           merge_duplicate(@, confidence, metadata)],
                             rels[i].id, "none")
             ELSE create_relationship(G, source_id, target_id, rel_type, confidence, metadata)

NoEntity == [id |-> None]

\* a variant of get_entity_by_value whose scan without a type keeps the last
\* index item that matches: C28 must tell it from get_entity_by_value
get_entity_by_value_last(G, value, entity_type) ==
    LET norm == normalize_value(value)
        index == G.value_index
    IN  IF entity_type # None
        THEN LET eid == index_get(index, entity_type \o <<":">> \o norm)
             IN  IF eid # None /\ HasId(G.entities, eid)
                 THEN G.entities[Pos(G.entities, eid)]
                 ELSE NoEntity
        ELSE LET hits == {i \in 1..Len(index) : Split1(index[i].key, ":")[2] = norm}
             IN  IF hits # {}
                 THEN LET i == CHOOSE j \in hits : \A k \in hits : j >= k
                      IN  IF HasId(G.entities, index[i].eid)
                          THEN G.entities[Pos(G.entities, index[i].eid)]
                          ELSE NoEntity
                 ELSE NoEntity

\* IntelligenceGraph.get_entity_by_value (value a str)
get_entity_by_value(G, value, entity_type) ==
    LET norm == normalize_value(value)
        index == G.value_index
    IN  IF entity_type # None
        THEN LET eid == index_get(index, entity_type \o <<":">> \o norm)
             IN  IF eid # None /\ HasId(G.entities, eid)
                 THEN G.entities[Pos(G.entities, eid)]
                 ELSE NoEntity
        ELSE LET hits == {i \in 1..Len(index) : Split1(index[i].key, ":")[2] = norm}
             IN  IF hits # {}
                 THEN LET i == CHOOSE j \in hits : \A k \in hits : j <= k
                      IN  IF HasId(G.entities, index[i].eid)
                          THEN G.entities[Pos(G.entities, index[i].eid)]
                          ELSE NoEntity
                 ELSE NoEntity

(***************************************************************************)
(* Configuration (src/config.py:86-91)                                     *)
(***************************************************************************)
\* config.RISK_KEYWORDS["subdomains"], in the order of the dict
RISK_KEYWORDS_subdomains ==
  <<[risk_level |-> <<"h","i","g","h">>,
     keywords |-> <<<<"v","p","n">>,
                   <<"a","d","m","i","n">>,
                   <<"r","o","o","t">>,
                   <<"b","a","c","k","u","p">>,
                   <<"t","e","s","t">>,
                   <<"d","e","v">>,
                   <<"s","t","a","g","i","n","g">>>>],
    [risk_level |-> <<"m","e","d","i","u","m">>,
     keywords |-> <<<<"p","o","r","t","a","l">>,
                   <<"l","o","g","i","n">>,
                   <<"s","e","c","u","r","e">>,
                   <<"a","p","i">>,
                   <<"r","e","m","o","t","e">>>>],
    [risk_level |-> <<"l","o","w">>,
     keywords |-> <<<<"w","w","w">>,
                   <<"b","l","o","g">>,
                   <<"s","h","o","p">>,
                   <<"n","e","w","s">>>>]>>

(***************************************************************************)
(* OSINTParser, utility methods (src/parser_correlator.py:487-536)         *)
(***************************************************************************)
LocalPartChars == Letters \cup Range(Digits) \cup {".", "_", "%", "+", "-"}
DomainPartChars == Letters \cup Range(Digits) \cup {".", "-"}

\* whether s[1..n] matches [a-zA-Z0-9._%+-]+@[a-zA-Z0-9.-]+\.[a-zA-Z]{2,}
MatchesEmailPattern(s, n) ==
    \E i \in 2..n : \E j \in (i + 2)..(n - 2) :
        /\ s[i] = "@"
        /\ \A k \in 1..(i - 1) : s[k] \in LocalPartChars
        /\ \A k \in (i + 1)..(j - 1) : s[k] \in DomainPartChars
        /\ s[j] = "."
        /\ \A k \in (j + 1)..n : s[k] \in Letters

\* _is_valid_email(email), email a str: re.match of ^...$, where $ matches at
\* the end of the string and before a newline that ends it
is_valid_email(email) ==
    \/ MatchesEmailPattern(email, Len(email))
    \/ /\ email # <<>>
       /\ email[Len(email)] = "\n"
       /\ MatchesEmailPattern(email, Len(email) - 1)

\* where https?://([^/]+) matches when tried at position p: the position of the
\* first character of the group, 0 when it does not match there
UrlGroupStart(url, p) ==
    LET rest == SubSeq(url, p, Len(url))
        start == IF StartsWith(rest, <<"h","t","t","p","s",":","/","/">>) THEN p + 8
                 ELSE IF StartsWith(rest, <<"h","t","t","p",":","/","/">>) THEN p + 7
                 ELSE 0
    IN  IF start # 0 /\ start <= Len(url) /\ url[start] # "/" THEN start ELSE 0

\* _extract_domain_from_url(url): re.search, the leftmost match, the group greedy
extract_domain_from_url(url) ==
    LET starts == {p \in 1..Len(url) : UrlGroupStart(url, p) # 0}
    IN  IF starts = {} THEN url
        ELSE LET p == CHOOSE q \in starts : \A r \in starts : q <= r
                 b == UrlGroupStart(url, p)
                 e == CHOOSE x \in b..Len(url) :
                          /\ \A k \in b..x : url[k] # "/"
                          /\ (x = Len(url) \/ url[x + 1] = "/")
             IN  SubSeq(url, b, e)

platforms ==
  <<[key |-> <<"t","w","i","t","t","e","r">>, name |-> <<"T","w","i","t","t","e","r">>],
    [key |-> <<"g","i","t","h","u","b">>, name |-> <<"G","i","t","H","u","b">>],
    [key |-> <<"l","i","n","k","e","d","i","n">>, name |-> <<"L","i","n","k","e","d","I","n">>],
    [key |-> <<"f","a","c","e","b","o","o","k">>, name |-> <<"F","a","c","e","b","o","o","k">>],
    [key |-> <<"i","n","s","t","a","g","r","a","m">>, name |-> <<"I","n","s","t","a","g","r","a","m">>],
    [key |-> <<"r","e","d","d","i","t">>, name |-> <<"R","e","d","d","i","t">>],
    [key |-> <<"y","o","u","t","u","b","e">>, name |-> <<"Y","o","u","T","u","b","e">>],
    [key |-> <<"t","i","k","t","o","k">>, name |-> <<"T","i","k","T","o","k">>]>>

\* _extract_platform_name(url): the first platform whose key is in url.lower()
extract_platform_name(url) ==
    LET hits == {i \in 1..Len(platforms) : Contains(platforms[i].key, lower(url))}
    IN  IF hits = {} THEN <<"U","n","k","n","o","w","n">>
        ELSE platforms[CHOOSE i \in hits : \A j \in hits : i <= j].name

\* _extract_username_from_url(url): url.rstrip("/").split("/")[-1]
extract_username_from_url(url) ==
    LET parts == Split(rstrip(url, {"/"}), "/")
    IN  parts[Len(parts)]

\* the tags of one tier, in the order of its keywords
RECURSIVE TierTags(_, _, _)
TierTags(subdomain_lower, risk_level, keywords) ==
    IF keywords = <<>> THEN <<>>
    ELSE (IF Contains(Head(keywords), subdomain_lower)
          THEN <<Head(keywords) \o <<"_">> \o risk_level>>
          ELSE <<>>)
         \o TierTags(subdomain_lower, risk_level, Tail(keywords))

\* the tags of the tiers, in the order of the tiers
RECURSIVE TiersTags(_, _)
TiersTags(subdomain_lower, tiers) ==
    IF tiers = <<>> THEN <<>>
    ELSE TierTags(subdomain_lower, Head(tiers).risk_level, Head(tiers).keywords)
         \o TiersTags(subdomain_lower, Tail(tiers))

\* a variant of check_risk_keywords that does not fold the case: C24 must tell
\* it from check_risk_keywords
check_risk_keywords_cased(subdomain) == TiersTags(subdomain, RISK_KEYWORDS_subdomains)

\* _check_risk_keywords(subdomain)
check_risk_keywords(subdomain) == TiersTags(lower(subdomain), RISK_KEYWORDS_subdomains)

\* d.get(key, default)
Get(d, key, default) == IF key \in DOMAIN d THEN d[key] ELSE default

(***************************************************************************)
(* OSINTParser, parsing methods (src/parser_correlator.py:235-417)         *)
(* Each takes the graph, self.target and self.root_domain_id where it      *)
(* reads them, and returns the graph after the call.                       *)
(***************************************************************************)
\* OSINTParser.parse_subdomains
RECURSIVE parse_subdomains(_, _, _, _)
parse_subdomains(G, target, root_domain_id, subdomains) ==
    Then(G,
        IF subdomains = <<>> THEN G
        ELSE LET subdomain == Head(subdomains)
             IN  IF subdomain = <<>>
                 THEN parse_subdomains(G, target, root_domain_id, Tail(subdomains))
                 ELSE IF normalize_value(subdomain) = normalize_value(target)
                 THEN parse_subdomains(G, target, root_domain_id, Tail(subdomains))
                 ELSE LET a == add_entity(G, T_subdomain, subdomain, S_subfinder,
                                          [parent_domain |-> target,
                                           risk_keywords |-> check_risk_keywords(subdomain)])
                          b == add_relationship(a.g, a.id, root_domain_id, R_subdomain_of, 100, NoMeta)
                      IN  parse_subdomains(b.g, target, root_domain_id, Tail(subdomains)))

\* the entity type of a DNS record type
dns_entity_type(record_type) ==
    CASE record_type = <<"A">> -> T_ip_address
      [] record_type = <<"M","X">> -> T_mail_server
      [] record_type = <<"N","S">> -> T_nameserver
      [] record_type = <<"T","X","T">> -> T_txt_record
      [] OTHER -> T_dns_record

\* parse_dns_records, the records of one record type
RECURSIVE parse_dns_type(_, _, _, _)
parse_dns_type(G, root_domain_id, record_type, records) ==
    Then(G,
        IF records = <<>> THEN G
        ELSE LET record == Head(records)
             IN  IF record = <<>>
                 THEN parse_dns_type(G, root_domain_id, record_type, Tail(records))
                 ELSE LET a == add_entity(G, dns_entity_type(record_type), record, S_dns_lookup,
                                          [record_type |-> record_type])
                          b == add_relationship(a.g, a.id, root_domain_id,
                                                <<"d","n","s","_">> \o lower(record_type)
                                                    \o <<"_","f","o","r">>,
                                                100, NoMeta)
                      IN  parse_dns_type(b.g, root_domain_id, record_type, Tail(records)))

\* OSINTParser.parse_dns_records; dns_data is the sequence of the dict's items
RECURSIVE parse_dns_records(_, _, _)
parse_dns_records(G, root_domain_id, dns_data) ==
    Then(G,
        IF dns_data = <<>> THEN G
        ELSE parse_dns_records(
                 parse_dns_type(G, root_domain_id, Head(dns_data).record_type, Head(dns_data).records),
                 root_domain_id, Tail(dns_data)))

\* a variant of email_domain_part that takes the part before the "@": C10 must
\* tell it from email_domain_part
email_local_part(email) ==
    IF \E i \in 1..Len(email) : email[i] = "@" THEN Split(email, "@")[1] ELSE <<>>

\* email.split('@')[1] if '@' in email else ""
email_domain_part(email) ==
    IF \E i \in 1..Len(email) : email[i] = "@" THEN Split(email, "@")[2] ELSE <<>>

\* parse_whois, the copy of the registration fields into the root entity
RECURSIVE copy_whois_keys(_, _, _)
copy_whois_keys(metadata, whois_data, keys) ==
    IF keys = <<>> THEN metadata
    ELSE copy_whois_keys(
             IF Get(whois_data, Head(keys), <<>>) # <<>>
             THEN Update(metadata, [k \in {Head(keys)} |-> whois_data[Head(keys)]])
             ELSE metadata,
             whois_data, Tail(keys))

\* parse_whois, the loop over the emails
RECURSIVE parse_whois_emails(_, _, _)
parse_whois_emails(G, root_domain_id, emails) ==
    Then(G,
        IF emails = <<>> THEN G
        ELSE LET email == Head(emails)
             IN  IF email # <<>> /\ is_valid_email(email)
                 THEN LET a == add_entity(G, T_email, email, S_whois,
                                          [domain |-> email_domain_part(email)])
                          b == add_relationship(a.g, a.id, root_domain_id, R_registered_to, 90, NoMeta)
                      IN  parse_whois_emails(b.g, root_domain_id, Tail(emails))
                 ELSE parse_whois_emails(G, root_domain_id, Tail(emails)))

\* OSINTParser.parse_whois
parse_whois(G, root_domain_id, whois_data, emails) ==
    LET i == Pos(G.entities, root_domain_id)
        G1 == IF DOMAIN whois_data # {}
              THEN [G EXCEPT !.entities[i].metadata =
                        copy_whois_keys(@, whois_data,
                                        <<"registrar", "creation_date", "expiration_date">>)]
              ELSE G
    IN  parse_whois_emails(G1, root_domain_id, emails)

\* a variant of probe_skipped that also skips an answer that names its server:
\* C21 must tell it from probe_skipped
probe_skipped_with_server(url, endpoint) ==
    \/ url = <<>>
    \/ "server" \in DOMAIN endpoint
    \/ ~("status_code" \in DOMAIN endpoint /\ endpoint.status_code = 200)

\* a variant of probe_skipped that looks for a status code and not at it: C19
\* must tell it from probe_skipped
probe_skipped_unless_status(url, endpoint) ==
    url = <<>> \/ "status_code" \notin DOMAIN endpoint

\* parse_web_endpoints, the test that skips a probe result: no url, or a
\* status code that is missing or is not 200
probe_skipped(url, endpoint) ==
    url = <<>> \/ ~("status_code" \in DOMAIN endpoint /\ endpoint.status_code = 200)

\* OSINTParser.parse_web_endpoints; an endpoint is a dict
RECURSIVE parse_web_endpoints(_, _)
parse_web_endpoints(G, endpoints) ==
    Then(G,
        IF endpoints = <<>> THEN G
        ELSE LET endpoint == Head(endpoints)
                 url == Get(endpoint, "url", <<>>)
             IN  IF probe_skipped(url, endpoint)
                 THEN parse_web_endpoints(G, Tail(endpoints))
                 ELSE LET a == add_entity(G, T_url, url, S_httpx,
                                          [status_code |-> endpoint.status_code,
                                           title |-> Get(endpoint, "title", <<>>),
                                           server |-> Get(endpoint, "server", <<>>),
                                           technologies |-> Get(endpoint, "technologies", <<>>),
                                           content_length |-> Get(endpoint, "content_length", 0)])
                          domain == extract_domain_from_url(url)
                          domain_entity == get_entity_by_value(a.g, domain, None)
                          b == IF domain_entity # NoEntity
                               THEN add_relationship(a.g, a.id, domain_entity.id, R_hosted_on, 100, NoMeta)
                               ELSE a
                      IN  parse_web_endpoints(b.g, Tail(endpoints)))

\* OSINTParser.parse_emails
RECURSIVE parse_emails(_, _, _, _)
parse_emails(G, root_domain_id, emails, source) ==
    Then(G,
        IF emails = <<>> THEN G
        ELSE LET email == Head(emails)
             IN  IF ~is_valid_email(email)
                 THEN parse_emails(G, root_domain_id, Tail(emails), source)
                 ELSE LET a == add_entity(G, T_email, email, source,
                                          [domain |-> email_domain_part(email)])
                          b == add_relationship(a.g, a.id, root_domain_id, R_associated_with, 80, NoMeta)
                          username == Split(email, "@")[1]
                          c == add_entity(b.g, T_username, username, source \o S_derived,
                                          [derived_from |-> <<"e","m","a","i","l">>])
                          d == add_relationship(c.g, c.id, a.id, R_username_of, 90, NoMeta)
                      IN  parse_emails(d.g, root_domain_id, Tail(emails), source))

\* OSINTParser.parse_social_profiles; a profile is a str
RECURSIVE parse_social_profiles(_, _)
parse_social_profiles(G, profiles) ==
    Then(G,
        IF profiles = <<>> THEN G
        ELSE LET profile_url == Head(profiles)
             IN  IF ~StartsWith(profile_url, <<"h","t","t","p">>)
                 THEN parse_social_profiles(G, Tail(profiles))
                 ELSE LET platform == extract_platform_name(profile_url)
                          username == extract_username_from_url(profile_url)
                          a == add_entity(G, T_social_profile, profile_url, S_sherlock,
                                          [platform |-> platform, username |-> username])
                          username_entity == get_entity_by_value(a.g, username, T_username)
                          b == IF username_entity # NoEntity
                               THEN add_relationship(a.g, a.id, username_entity.id, R_profile_of, 95, NoMeta)
                               ELSE a
                      IN  parse_social_profiles(b.g, Tail(profiles)))

(***************************************************************************)
(* OSINTParser, correlation methods (src/parser_correlator.py:422-482)     *)
(***************************************************************************)
\* a variant of correlate_email that links only an email whose domain part
\* is inside the subdomain value: C29 must tell it from correlate_email
RECURSIVE correlate_email_one_way(_, _, _)
correlate_email_one_way(G, email_entity, subdomains) ==
    Then(G,
        IF subdomains = <<>> THEN G
        ELSE LET email_domain == email_domain_part(email_entity.value)
                 subdomain_entity == Head(subdomains)
             IN  IF email_domain # <<>> /\ Contains(email_domain, subdomain_entity.value)
                 THEN correlate_email_one_way(
                          add_relationship(G, email_entity.id, subdomain_entity.id,
                                           R_email_from_subdomain, 80,
                                           [correlation_type |->
                                                <<"d","o","m","a","i","n","_","m","a","t","c","h">>]).g,
                          email_entity, Tail(subdomains))
                 ELSE correlate_email_one_way(G, email_entity, Tail(subdomains)))

\* correlate_emails_and_subdomains, the inner loop for one email entity
RECURSIVE correlate_email(_, _, _)
correlate_email(G, email_entity, subdomains) ==
    Then(G,
        IF subdomains = <<>> THEN G
        ELSE LET email_domain == email_domain_part(email_entity.value)
                 subdomain_entity == Head(subdomains)
             IN  IF /\ email_domain # <<>>
                    /\ \/ Contains(email_domain, subdomain_entity.value)
                       \/ Contains(subdomain_entity.value, email_domain)
                 THEN correlate_email(
                          add_relationship(G, email_entity.id, subdomain_entity.id,
                                           R_email_from_subdomain, 80,
                                           [correlation_type |->
                                                <<"d","o","m","a","i","n","_","m","a","t","c","h">>]).g,
                          email_entity, Tail(subdomains))
                 ELSE correlate_email(G, email_entity, Tail(subdomains)))

\* correlate_emails_and_subdomains, the outer loop
RECURSIVE correlate_emails(_, _, _)
correlate_emails(G, emails, subdomains) ==
    Then(G,
        IF emails = <<>> THEN G
        ELSE correlate_emails(correlate_email(G, Head(emails), subdomains), Tail(emails), subdomains))

\* OSINTParser.correlate_emails_and_subdomains
correlate_emails_and_subdomains(G) ==
    correlate_emails(G,
                     SelectSeq(G.entities, LAMBDA e : e.type = T_email),
                     SelectSeq(G.entities, LAMBDA e : e.type = T_subdomain))

\* the keys of username_groups, in insertion order
RECURSIVE group_keys(_, _)
group_keys(usernames, seen) ==
    IF usernames = <<>> THEN seen
    ELSE LET norm == normalize_value(Head(usernames).value)
         IN  group_keys(Tail(usernames),
                        IF \E i \in 1..Len(seen) : seen[i] = norm THEN seen ELSE Append(seen, norm))

\* correlate_usernames_across_sources: id1 against every id2 of ids[i + 1:]
RECURSIVE link_one(_, _, _)
link_one(G, id1, others) ==
    Then(G,
        IF others = <<>> THEN G
        ELSE link_one(add_relationship(G, id1, Head(others), R_same_username, 100, NoMeta).g,
                      id1, Tail(others)))

\* correlate_usernames_across_sources: every pair of one group
RECURSIVE link_group(_, _)
link_group(G, ids) ==
    Then(G,
        IF ids = <<>> THEN G
        ELSE link_group(link_one(G, Head(ids), Tail(ids)), Tail(ids)))

\* correlate_usernames_across_sources: the groups with more than one member
RECURSIVE link_groups(_, _, _)
link_groups(G, usernames, keys) ==
    Then(G,
        IF keys = <<>> THEN G
        ELSE LET members == SelectSeq(usernames, LAMBDA e : normalize_value(e.value) = Head(keys))
                 ids == [i \in 1..Len(members) |-> members[i].id]
             IN  link_groups(IF Len(ids) > 1 THEN link_group(G, ids) ELSE G, usernames, Tail(keys)))

\* OSINTParser.correlate_usernames_across_sources
correlate_usernames_across_sources(G) ==
    LET usernames == SelectSeq(G.entities, LAMBDA e : e.type = T_username)
    IN  link_groups(G, usernames, group_keys(usernames, <<>>))

\* connection_counts[entity_id]
connection_count(relationships, entity_id) ==
    Cardinality({i \in 1..Len(relationships) : relationships[i].source_id = entity_id})
    + Cardinality({i \in 1..Len(relationships) : relationships[i].target_id = entity_id})

\* a variant of is_high_value that needs more than the threshold: C9 must tell
\* it from is_high_value
is_high_value_strict(count, threshold) == count > threshold

\* identify_high_value_targets, the test of the count
is_high_value(count, threshold) == count >= threshold

\* OSINTParser.identify_high_value_targets
identify_high_value_targets(G, threshold) ==
    [G EXCEPT !.entities =
        [i \in 1..Len(G.entities) |->
            LET count == connection_count(G.relationships, G.entities[i].id)
            IN  IF is_high_value(count, threshold)
                THEN [G.entities[i] EXCEPT !.metadata =
                          Update(@, [high_value_target |-> TRUE, connection_count |-> count])]
                ELSE G.entities[i]]]

\* the default of identify_high_value_targets' threshold
default_threshold == 3

(***************************************************************************)
(* DataCorrelator (src/parser_correlator.py:541-588)                       *)
(***************************************************************************)
\* IntelligenceGraph.__init__
EmptyGraph ==
    [entities |-> <<>>, relationships |-> <<>>, value_index |-> <<>>, draws |-> 0, clock |-> 0]

\* OSINTParser.__init__: the graph seeded with the root domain, and its id
OSINTParser_init(target_domain) ==
    add_entity(EmptyGraph, T_domain, target_domain, S_user_input, [is_root |-> TRUE])

\* a variant of parse_all that leaves out parse_emails: C20 must tell it from
\* parse_all
parse_all_without_emails(G, target, root_domain_id, raw_data) ==
    LET subdomains == Get(raw_data, "subdomains", <<>>)
        dns_records == Get(raw_data, "dns_records", <<>>)
        whois_data == Get(raw_data, "whois_data", <<>>)
        emails == Get(raw_data, "emails", <<>>)
        web_endpoints == Get(raw_data, "web_endpoints", <<>>)
        social_profiles == Get(raw_data, "social_profiles", <<>>)
        G1 == IF subdomains # <<>> THEN parse_subdomains(G, target, root_domain_id, subdomains) ELSE G
        G2 == IF dns_records # <<>> THEN parse_dns_records(G1, root_domain_id, dns_records) ELSE G1
        G3 == IF DOMAIN whois_data # {} \/ emails # <<>>
              THEN parse_whois(G2, root_domain_id, whois_data, emails) ELSE G2
        G4 == IF web_endpoints # <<>> THEN parse_web_endpoints(G3, web_endpoints) ELSE G3
        G5 == G4
        G6 == IF social_profiles # <<>> THEN parse_social_profiles(G5, social_profiles) ELSE G5
    IN  G6

\* DataCorrelator.parse_all; raw_data.get(k) of a missing category is falsy
parse_all(G, target, root_domain_id, raw_data) ==
    LET subdomains == Get(raw_data, "subdomains", <<>>)
        dns_records == Get(raw_data, "dns_records", <<>>)
        whois_data == Get(raw_data, "whois_data", <<>>)
        emails == Get(raw_data, "emails", <<>>)
        web_endpoints == Get(raw_data, "web_endpoints", <<>>)
        social_profiles == Get(raw_data, "social_profiles", <<>>)
        G1 == IF subdomains # <<>> THEN parse_subdomains(G, target, root_domain_id, subdomains) ELSE G
        G2 == IF dns_records # <<>> THEN parse_dns_records(G1, root_domain_id, dns_records) ELSE G1
        G3 == IF DOMAIN whois_data # {} \/ emails # <<>>
              THEN parse_whois(G2, root_domain_id, whois_data, emails) ELSE G2
        G4 == IF web_endpoints # <<>> THEN parse_web_endpoints(G3, web_endpoints) ELSE G3
        G5 == IF emails # <<>> THEN parse_emails(G4, root_domain_id, emails, S_theharvester) ELSE G4
        G6 == IF social_profiles # <<>> THEN parse_social_profiles(G5, social_profiles) ELSE G5
    IN  G6

\* a variant of correlate_all that detects the high-value targets first: C12
\* must tell it from correlate_all
correlate_all_detect_first(G) ==
    correlate_usernames_across_sources(
        correlate_emails_and_subdomains(identify_high_value_targets(G, default_threshold)))

\* DataCorrelator.correlate_all
correlate_all(G) ==
    identify_high_value_targets(
        correlate_usernames_across_sources(correlate_emails_and_subdomains(G)),
        default_threshold)

(***************************************************************************)
(* IntelligenceGraph.to_dict and DataCorrelator.save_graph                 *)
(* (src/parser_correlator.py:203-227, 593-611).  A path is its parent      *)
(* directory and its name.  A file is the document being written to it and *)
(* the number of the document's chunks that are in it so far.              *)
(***************************************************************************)
\* a variant of count_types that sets the count of a type and does not add to
\* it: C23 must tell it from count_types
RECURSIVE count_types_set(_)
count_types_set(keys) ==
    IF keys = <<>> THEN <<>>
    ELSE LET counts == count_types_set(SubSeq(keys, 1, Len(keys) - 1))
             key == keys[Len(keys)]
             at == {i \in 1..Len(counts) : counts[i].key = key}
         IN  IF at = {} THEN Append(counts, [key |-> key, count |-> 1])
             ELSE [counts EXCEPT ![CHOOSE i \in at : TRUE].count = 1]

\* _count_entity_types / _count_relationship_types over the types of the
\* items: counts[type] += 1 on a defaultdict(int), a dict in the order the
\* types first occur
RECURSIVE count_types(_)
count_types(keys) ==
    IF keys = <<>> THEN <<>>
    ELSE LET counts == count_types(SubSeq(keys, 1, Len(keys) - 1))
             key == keys[Len(keys)]
             at == {i \in 1..Len(counts) : counts[i].key = key}
         IN  IF at = {} THEN Append(counts, [key |-> key, count |-> 1])
             ELSE [counts EXCEPT ![CHOOSE i \in at : TRUE].count = @ + 1]

\* the fields of the dataclasses, in the order of their declaration
EntityFields == <<"id", "type", "value", "source", "timestamp", "metadata">>
RelationshipFields ==
    <<"id", "source_id", "target_id", "relationship_type", "confidence", "metadata">>

\* a variant of asdict that leaves the metadata out: C22 must tell it from
\* asdict
asdict_without_metadata(obj, fields) ==
    LET kept == SelectSeq(fields, LAMBDA f : f # "metadata")
    IN  [i \in 1..Len(kept) |-> [key |-> kept[i], value |-> obj[kept[i]]]]

\* Entity.to_dict / Relationship.to_dict: dataclasses.asdict, a dict of the
\* fields in the order of their declaration
asdict(obj, fields) ==
    [i \in 1..Len(fields) |-> [key |-> fields[i], value |-> obj[fields[i]]]]

\* d[key] of a dict of a document read back: the value of the item of that
\* key, no item when the key is missing
item(d, key) ==
    LET hits == {i \in 1..Len(d) : d[i].key = key}
    IN  IF hits = {} THEN [missing |-> key] ELSE d[CHOOSE i \in hits : TRUE].value

\* IntelligenceGraph.to_dict
to_dict(G, target) ==
    [target |-> target,
     entities |-> [i \in 1..Len(G.entities) |-> asdict(G.entities[i], EntityFields)],
     relationships |->
         [i \in 1..Len(G.relationships) |-> asdict(G.relationships[i], RelationshipFields)],
     stats |-> [total_entities |-> Len(G.entities),
                total_relationships |-> Len(G.relationships),
                entity_types |->
                    count_types([i \in 1..Len(G.entities) |-> G.entities[i].type]),
                relationship_types |->
                    count_types([i \in 1..Len(G.relationships) |->
                                     G.relationships[i].relationship_type])]]

\* a variant of get_connected_entities that follows a relationship from its
\* source only: C27 must tell it from get_connected_entities
RECURSIVE get_connected_entities_outgoing(_, _, _)
get_connected_entities_outgoing(G, rels, entity_id) ==
    IF rels = <<>> THEN <<>>
    ELSE LET rel == Head(rels)
             rest == get_connected_entities_outgoing(G, Tail(rels), entity_id)
         IN  IF rel.source_id = entity_id
             THEN <<G.entities[Pos(G.entities, rel.target_id)]>> \o rest
             ELSE rest

\* IntelligenceGraph.get_connected_entities
RECURSIVE get_connected_entities(_, _, _)
get_connected_entities(G, rels, entity_id) ==
    IF rels = <<>> THEN <<>>
    ELSE LET rel == Head(rels)
             rest == get_connected_entities(G, Tail(rels), entity_id)
         IN  IF rel.source_id = entity_id
             THEN <<G.entities[Pos(G.entities, rel.target_id)]>> \o rest
             ELSE IF rel.target_id = entity_id
                  THEN <<G.entities[Pos(G.entities, rel.source_id)]>> \o rest
                  ELSE rest

\* a variant of Read that consumes the index item it visits first: C15 must
\* tell it from Read
Read_evicting(G, value) ==
    [g |-> [G EXCEPT !.value_index = IF @ = <<>> THEN @ ELSE Tail(@)], value |-> value]

\* a method that assigns nothing to the graph: the graph it leaves, the value
\* it returns
Read(G, value) == [g |-> G, value |-> value]

\* the chunks json.dump writes of a document: the target, one per entity, one
\* per relationship, the stats
chunks(doc) == 2 + Len(doc.entities) + Len(doc.relationships)

\* a variant of tmp_path that is the path itself: C13 must tell it from tmp_path
tmp_path_in_place(output_file) == output_file

\* output_file.with_suffix(output_file.suffix + ".tmp")
tmp_path(output_file) == [output_file EXCEPT !.name = @ \o <<".","t","m","p">>]

\* no file at a path
Absent == [exists |-> FALSE]

\* tmp_path.open("w"): the file exists and is empty
opened(doc) == [exists |-> TRUE, doc |-> doc, written |-> 0]

\* tmp_path.replace(output_file) on the files of a directory
replace(files, tmp, output_file) ==
    IF tmp = output_file THEN files
    ELSE [files EXCEPT ![output_file] = files[tmp], ![tmp] = Absent]

(***************************************************************************)
(* Inputs                                                                  *)
(***************************************************************************)
V_example_com == <<"e","x","a","m","p","l","e",".","c","o","m">>
V_www_example_com == <<"w","w","w",".","e","x","a","m","p","l","e",".","c","o","m">>
V_vpn_example_com == <<"v","p","n",".","e","x","a","m","p","l","e",".","c","o","m">>
V_admin_example_com == <<"a","d","m","i","n","@","e","x","a","m","p","l","e",".","c","o","m">>
V_dev_test == <<"d","e","v","@","t","e","s","t",".","e","x","a","m","p","l","e",".","c","o","m">>
V_dev_sales == <<"d","e","v","@","s","a","l","e","s",".","e","x","a","m","p","l","e",".","c","o","m">>
V_a_io == <<"a",".","i","o">>
V_w_a_io == <<"w",".","a",".","i","o">>
V_W_a_io == <<"W",".","a",".","i","o">>
V_ns_a_io == <<"n","s",".","a",".","i","o">>
V_d_a_io == <<"d","@","a",".","i","o">>
V_D_A_io == <<"D","@","A",".","i","o">>
V_d_a == <<"d","@","a">>
V_ip == <<"1",".","2",".","3",".","4">>
V_Reg == <<"R","e","g">>
V_nginx == <<"n","g","i","n","x">>
U_b == <<"h","t","t","p",":","/","/","b",".","i","o">>
U_b_bare == <<"b",".","i","o">>
U_w_x == <<"h","t","t","p",":","/","/","w",".","a",".","i","o","/","x">>
U_W == <<"h","t","t","p",":","/","/","W",".","a",".","i","o">>
U_ns == <<"h","t","t","p","s",":","/","/","n","s",".","a",".","i","o","/">>
P_d == <<"h","t","t","p",":","/","/","x",".","i","o","/","d">>
P_ftp == <<"f","t","p",":","/","/","x",".","i","o","/","d">>
S_source1 == <<"s","o","u","r","c","e","1">>
S_source2 == <<"s","o","u","r","c","e","2">>
R_related_to == <<"r","e","l","a","t","e","d","_","t","o">>

\* the bundle of the end-to-end scenario: two subdomains and one email
ScenarioBundle ==
    [target |-> V_example_com,
     subdomains |-> <<V_www_example_com, V_vpn_example_com>>,
     emails |-> <<V_admin_example_com>>]

\* the bundle of the username scenario: two emails of one local part
UsernameBundle ==
    [target |-> V_example_com,
     emails |-> <<V_dev_test, V_dev_sales>>]

\* every category present; an endpoint without a scheme, one that is not 200,
\* an invalid email, a profile that is not http, the target among the subdomains
BundleA ==
    [target |-> V_a_io,
     subdomains |-> <<V_w_a_io, V_a_io>>,
     dns_records |-> <<[record_type |-> <<"A">>, records |-> <<V_ip>>]>>,
     whois_data |-> [registrar |-> V_Reg],
     emails |-> <<V_d_a_io, V_d_a>>,
     web_endpoints |-> <<[url |-> U_b, status_code |-> 200],
                         [url |-> U_b_bare, status_code |-> 200, server |-> V_nginx],
                         [url |-> U_w_x, status_code |-> 404]>>,
     social_profiles |-> <<P_d, P_ftp>>]

\* values that differ in case and whitespace only; categories missing
BundleB ==
    [target |-> V_a_io,
     subdomains |-> <<<<" ">>, V_W_a_io, V_w_a_io>>,
     emails |-> <<V_D_A_io, V_d_a_io>>,
     web_endpoints |-> <<[url |-> U_W, status_code |-> 200]>>]

\* a nameserver record and a subdomain of the same value, and an endpoint on it
BundleC ==
    [target |-> V_a_io,
     subdomains |-> <<V_ns_a_io>>,
     dns_records |-> <<[record_type |-> <<"N","S">>, records |-> <<V_ns_a_io>>]>>,
     emails |-> <<V_d_a_io>>,
     web_endpoints |-> <<[url |-> U_ns, status_code |-> 200]>>,
     social_profiles |-> <<P_d>>]

\* the email strings a collector hands over: an address, the same in other
\* case, one without a top-level domain, a line that kept its newline, one
\* without a local part, the empty string
V_d_a_io_nl == V_d_a_io \o <<"\n">>
V_at_a_io == <<"@","a",".","i","o">>
EmailStrings == {V_d_a_io, V_D_A_io, V_d_a, V_d_a_io_nl, V_at_a_io, <<>>}

\* the bundles of the email parsers: up to two email strings
EmailBundles ==
    {[target |-> V_a_io, emails |-> emails] :
        emails \in {<<>>} \cup {<<e>> : e \in EmailStrings}
                         \cup {<<e, f>> : e \in EmailStrings, f \in EmailStrings}}

\* the probe results a collector hands over: two that answered 200, one of
\* them with a server, one that answered 404, one that was redirected, one
\* without a url, one without a status code
Probes ==
    {[url |-> U_W, status_code |-> 200],
     [url |-> U_w_x, status_code |-> 200, server |-> V_nginx],
     [url |-> U_w_x, status_code |-> 404],
     [url |-> U_b, status_code |-> 301],
     [url |-> <<>>, status_code |-> 200],
     [url |-> U_b]}

\* the bundles of the web-endpoint parser: a subdomain, up to two probe results
EndpointBundles ==
    {[target |-> V_a_io, subdomains |-> <<V_w_a_io>>, web_endpoints |-> endpoints] :
        endpoints \in {<<>>} \cup {<<e>> : e \in Probes}
                            \cup {<<e, f>> : e \in Probes, f \in Probes}}

\* the subdomains a collector hands over: one with a keyword of the high
\* tier, one in upper case with keywords of two tiers, one with a keyword
\* twice, one in other case and whitespace, one without a keyword, the target
V_WWW_Dev_a_io == <<"W","W","W",".","D","e","v",".","a",".","i","o">>
V_api_api_a_io == <<"a","p","i",".","a","p","i",".","a",".","i","o">>
V_sp_www_dev_a_io == <<" ","w","w","w",".","d","e","v",".","a",".","i","o">>
SubdomainStrings ==
    {V_vpn_example_com, V_WWW_Dev_a_io, V_api_api_a_io, V_sp_www_dev_a_io, V_w_a_io, V_a_io}

\* the bundles of the subdomain parser: up to two subdomains
SubdomainBundles ==
    {[target |-> V_a_io, subdomains |-> subdomains] :
        subdomains \in {<<>>} \cup {<<x>> : x \in SubdomainStrings}
                             \cup {<<x, y>> : x \in SubdomainStrings, y \in SubdomainStrings}}

\* the bundles of the direct callers, and those of the pipeline
ApiBundles == {BundleA, BundleB}
PipelineBundles == {ScenarioBundle, UsernameBundle, BundleA, BundleB, BundleC}

\* the arguments of the direct add_entity calls
EntityTypes == {T_username, T_email}
EntityValues == {<<>>, <<" ">>, <<"d">>, <<" ","D">>}
EntityCallers ==
    {[source |-> S_source1, metadata |-> NoMeta],
     [source |-> S_source1, metadata |-> [note |-> 1]],
     [source |-> S_source2, metadata |-> [note |-> 2, tag |-> 1]]}

\* the arguments of the direct add_relationship calls: confidences in hundredths
GhostId == <<"g","h","o","s","t">>
Confidences ==
    {[confidence |-> 90, metadata |-> NoMeta],
     [confidence |-> 50, metadata |-> [note |-> 1]],
     [confidence |-> 150, metadata |-> [note |-> 2]],
     [confidence |-> 0 - 10, metadata |-> NoMeta]}

\* the number of calls the direct callers make
MaxCalls == 2

\* the path save_graph is given, and the files of its directory
OutPath == [parent |-> <<"d","a","t","a">>, name |-> <<"g",".","j","s","o","n">>]
Paths == {OutPath, tmp_path(OutPath)}

\* the callers that share a graph, and the number of calls each makes
Callers == {1, 2}
MaxRaceCalls == 2

\* the number of calls of a run of the email parsers
MaxEmailCalls == 2

\* the number of calls of a run of the web-endpoint parser
MaxEndpointCalls == 2

\* the number of calls of a run of the subdomain parser
MaxSubdomainCalls == 2

\* the values uuid4().hex[:8] yields in a run that draws the ids: any value may
\* come again; and the number of calls of such a run
Draws == {0, 1, 2}
MaxIdCalls == 3

\* the number of calls of a run that reads
MaxReadCalls == 4

\* the number of calls of a run that saves
MaxSaveCalls == 4

(***************************************************************************)
(* State                                                                   *)
(***************************************************************************)
VARIABLES
    raw_data,        \* DataCorrelator.raw_data
    target,          \* OSINTParser.target
    root_domain_id,  \* OSINTParser.root_domain_id
    entities,        \* IntelligenceGraph.entities, in insertion order
    relationships,   \* IntelligenceGraph.relationships, in insertion order
    value_index,     \* IntelligenceGraph._value_index, in insertion order
    draws,           \* the number of uuid4 draws made
    clock,           \* the number of readings of the clock
    ret,             \* the last call: its name, arguments, return value, exception
    calls,           \* the number of calls made
    ran,             \* the parser and correlator methods called so far
    disk,            \* the files of the output directory, by path
    save,            \* the save_graph call in progress: its position, its document
    threads          \* the callers' calls in progress, and whether two ever overlapped

vars == <<raw_data, target, root_domain_id, entities, relationships, value_index,
          draws, clock, ret, calls, ran, disk, save, threads>>

\* the graph of the current state
Graph ==
    [entities |-> entities, relationships |-> relationships, value_index |-> value_index,
     draws |-> draws, clock |-> clock]

\* the state takes the graph G
SetGraph(G) ==
    /\ entities' = G.entities
    /\ relationships' = G.relationships
    /\ value_index' = G.value_index
    /\ draws' = G.draws
    /\ clock' = G.clock

\* the call is recorded
Called(op, args, id, raised) ==
    /\ ret' = [op |-> op, args |-> args, id |-> id, raised |-> raised]
    /\ calls' = calls + 1

\* no save_graph call in progress, after a number of calls that raised
NoSave(failures) == [pc |-> "idle", failures |-> failures]

\* DataCorrelator(osint_results) for a bundle of the set
InitWith(bundles) ==
    /\ raw_data \in bundles
    /\ target = raw_data.target
    /\ LET r == OSINTParser_init(raw_data.target)
       IN  /\ root_domain_id = r.id
           /\ entities = r.g.entities
           /\ relationships = r.g.relationships
           /\ value_index = r.g.value_index
           /\ draws = r.g.draws
           /\ clock = r.g.clock
    /\ ret = [op |-> "__init__", args |-> <<>>, id |-> None, raised |-> "none"]
    /\ calls = 0
    /\ ran = {}
    /\ disk = [path \in Paths |-> Absent]
    /\ save = NoSave(0)
    /\ threads = [of |-> [t \in Callers |-> [pc |-> "idle", made |-> 0]],
                  overlapped |-> FALSE]

Init == InitWith(ApiBundles)

(***************************************************************************)
(* Operations                                                              *)
(***************************************************************************)
\* graph.add_entity(entity_type, value, source, metadata)
AddEntity(entity_type, value, source, metadata) ==
    LET r == add_entity(Graph, entity_type, value, source, metadata)
    IN  /\ SetGraph(r.g)
        /\ Called("add_entity",
                  [entity_type |-> entity_type, value |-> value, source |-> source,
                   metadata |-> metadata],
                  r.id, r.raised)
        /\ UNCHANGED <<raw_data, target, root_domain_id, ran, disk, save, threads>>

\* graph.add_relationship(source_id, target_id, rel_type, confidence, metadata)
AddRelationship(source_id, target_id, rel_type, confidence, metadata) ==
    LET r == add_relationship(Graph, source_id, target_id, rel_type, confidence, metadata)
    IN  /\ SetGraph(r.g)
        /\ Called("add_relationship",
                  [source_id |-> source_id, target_id |-> target_id, rel_type |-> rel_type,
                   confidence |-> confidence, metadata |-> metadata],
                  r.id, r.raised)
        /\ UNCHANGED <<raw_data, target, root_domain_id, ran, disk, save, threads>>

\* a method of the parser that returns nothing
Method(op, args, G) ==
    /\ SetGraph(G)
    /\ Called(op, args, None, "none")
    /\ ran' = ran \cup {op}
    /\ UNCHANGED <<raw_data, target, root_domain_id, disk, save, threads>>

\* parser.parse_subdomains(raw_data["subdomains"])
ParseSubdomains ==
    LET subdomains == Get(raw_data, "subdomains", <<>>)
    IN  Method("parse_subdomains", subdomains,
               parse_subdomains(Graph, target, root_domain_id, subdomains))

\* parser.parse_dns_records(raw_data["dns_records"])
ParseDnsRecords ==
    LET dns_data == Get(raw_data, "dns_records", <<>>)
    IN  Method("parse_dns_records", dns_data, parse_dns_records(Graph, root_domain_id, dns_data))

\* parser.parse_whois(raw_data.get("whois_data", {}), raw_data.get("emails", []))
ParseWhois ==
    LET whois_data == Get(raw_data, "whois_data", <<>>)
        emails == Get(raw_data, "emails", <<>>)
    IN  Method("parse_whois", <<whois_data, emails>>,
               parse_whois(Graph, root_domain_id, whois_data, emails))

\* parser.parse_web_endpoints(raw_data["web_endpoints"])
ParseWebEndpoints ==
    LET endpoints == Get(raw_data, "web_endpoints", <<>>)
    IN  Method("parse_web_endpoints", endpoints, parse_web_endpoints(Graph, endpoints))

\* parser.parse_emails(raw_data["emails"])
ParseEmails ==
    LET emails == Get(raw_data, "emails", <<>>)
    IN  Method("parse_emails", emails, parse_emails(Graph, root_domain_id, emails, S_theharvester))

\* parser.parse_social_profiles(raw_data["social_profiles"])
ParseSocialProfiles ==
    LET profiles == Get(raw_data, "social_profiles", <<>>)
    IN  Method("parse_social_profiles", profiles, parse_social_profiles(Graph, profiles))

\* correlator.parse_all()
ParseAll == Method("parse_all", <<>>, parse_all(Graph, target, root_domain_id, raw_data))

\* parser.correlate_emails_and_subdomains()
CorrelateEmailsAndSubdomains ==
    Method("correlate_emails_and_subdomains", <<>>, correlate_emails_and_subdomains(Graph))

\* parser.correlate_usernames_across_sources()
CorrelateUsernamesAcrossSources ==
    Method("correlate_usernames_across_sources", <<>>, correlate_usernames_across_sources(Graph))

\* parser.identify_high_value_targets()
IdentifyHighValueTargets ==
    Method("identify_high_value_targets", <<>>,
           identify_high_value_targets(Graph, default_threshold))

\* correlator.correlate_all()
CorrelateAll == Method("correlate_all", <<>>, correlate_all(Graph))

\* the ids a direct caller passes to add_relationship: those of the entities,
\* and one that is no entity's
EndpointIds == {entities[i].id : i \in 1..Len(entities)} \cup {GhostId}

\* the engine under direct callers: any call, in any order
Next ==
    \/ \E entity_type \in EntityTypes, value \in EntityValues, c \in EntityCallers :
           calls < MaxCalls /\ AddEntity(entity_type, value, c.source, c.metadata)
    \/ \E source_id \in EndpointIds, target_id \in EndpointIds, c \in Confidences :
           calls < MaxCalls
           /\ AddRelationship(source_id, target_id, R_related_to, c.confidence, c.metadata)
    \/ calls < MaxCalls /\ ParseSubdomains
    \/ calls < MaxCalls /\ ParseDnsRecords
    \/ calls < MaxCalls /\ ParseWhois
    \/ calls < MaxCalls /\ ParseWebEndpoints
    \/ calls < MaxCalls /\ ParseEmails
    \/ calls < MaxCalls /\ ParseSocialProfiles
    \/ calls < MaxCalls /\ ParseAll
    \/ calls < MaxCalls /\ CorrelateEmailsAndSubdomains
    \/ calls < MaxCalls /\ CorrelateUsernamesAcrossSources
    \/ calls < MaxCalls /\ IdentifyHighValueTargets
    \/ calls < MaxCalls /\ CorrelateAll

Spec == Init /\ [][Next]_vars

(***************************************************************************)
(* The pipeline: DataCorrelator(bundle), then the six parsers over the      *)
(* bundle, each once, either in parse_all's order (parse_all) or one by    *)
(* one in any order, then the three correlation passes, either in          *)
(* correlate_all's order (correlate_all) or one by one in any order.       *)
(***************************************************************************)
ParserMethods ==
    {"parse_subdomains", "parse_dns_records", "parse_whois", "parse_web_endpoints",
     "parse_emails", "parse_social_profiles"}

CorrelationMethods ==
    {"correlate_emails_and_subdomains", "correlate_usernames_across_sources",
     "identify_high_value_targets"}

\* no parse_all and no correlate_all yet
Parsing == "parse_all" \notin ran /\ "correlate_all" \notin ran

\* every parser has run, through parse_all or one by one
Parsed == "parse_all" \in ran \/ ParserMethods \subseteq ran

\* every parser has run, no correlate_all yet
Correlating == Parsed /\ "correlate_all" \notin ran

PipelineInit == InitWith(PipelineBundles)

PipelineNext ==
    \/ Parsing /\ "parse_subdomains" \notin ran /\ ParseSubdomains
    \/ Parsing /\ "parse_dns_records" \notin ran /\ ParseDnsRecords
    \/ Parsing /\ "parse_whois" \notin ran /\ ParseWhois
    \/ Parsing /\ "parse_web_endpoints" \notin ran /\ ParseWebEndpoints
    \/ Parsing /\ "parse_emails" \notin ran /\ ParseEmails
    \/ Parsing /\ "parse_social_profiles" \notin ran /\ ParseSocialProfiles
    \/ ran = {} /\ ParseAll
    \/ Correlating /\ "correlate_emails_and_subdomains" \notin ran
           /\ CorrelateEmailsAndSubdomains
    \/ Correlating /\ "correlate_usernames_across_sources" \notin ran
           /\ CorrelateUsernamesAcrossSources
    \/ Correlating /\ "identify_high_value_targets" \notin ran /\ IdentifyHighValueTargets
    \/ Correlating /\ ran \cap CorrelationMethods = {} /\ CorrelateAll

SpecPipeline == PipelineInit /\ [][PipelineNext]_vars

(***************************************************************************)
(* Persistence: save_graph(OutPath), statement by statement, between the   *)
(* steps of the pipeline.  A statement that touches the file system may    *)
(* raise OSError (disk full, permission), which save_graph does not catch; *)
(* the process may crash between any two statements.                       *)
(***************************************************************************)
\* the call is in progress at one of the positions
SaveAt(pcs) == save.pc \in pcs

\* the graph and the pipeline stay as they are
SaveFrame ==
    UNCHANGED <<raw_data, target, root_domain_id, entities, relationships, value_index,
                draws, clock, ran, threads>>

\* graph = self.parser.graph.to_dict(); mkdir; tmp_path.open("w")
SaveOpen ==
    /\ SaveAt({"idle"})
    /\ calls < MaxSaveCalls
    /\ LET doc == to_dict(Graph, target)
       IN  /\ disk' = [disk EXCEPT ![tmp_path(OutPath)] = opened(doc)]
           /\ save' = [pc |-> "writing", failures |-> save.failures, doc |-> doc]
    /\ UNCHANGED <<ret, calls>>
    /\ SaveFrame

\* json.dump(graph, f, indent=2), one chunk
SaveWrite ==
    /\ SaveAt({"writing"})
    /\ disk[tmp_path(OutPath)].written < chunks(save.doc)
    /\ disk' = [disk EXCEPT ![tmp_path(OutPath)].written = @ + 1]
    /\ UNCHANGED <<ret, calls, save>>
    /\ SaveFrame

\* the end of the with block: the file is flushed and closed
SaveClose ==
    /\ SaveAt({"writing"})
    /\ disk[tmp_path(OutPath)].written = chunks(save.doc)
    /\ save' = [save EXCEPT !.pc = "closed"]
    /\ UNCHANGED <<ret, calls, disk>>
    /\ SaveFrame

\* tmp_path.replace(output_file); return output_file
SaveReplace ==
    /\ SaveAt({"closed"})
    /\ disk' = replace(disk, tmp_path(OutPath), OutPath)
    /\ save' = NoSave(save.failures)
    /\ ret' = [op |-> "save_graph", args |-> OutPath, value |-> OutPath, raised |-> "none"]
    /\ calls' = calls + 1
    /\ SaveFrame

\* mkdir, open, a write, the close or the replace raises OSError
SaveRaises ==
    /\ SaveAt({"idle", "writing", "closed"})
    /\ calls < MaxSaveCalls
    /\ save' = NoSave(save.failures + 1)
    /\ ret' = [op |-> "save_graph", args |-> OutPath, value |-> None, raised |-> "OSError"]
    /\ calls' = calls + 1
    /\ UNCHANGED disk
    /\ SaveFrame

\* the process dies in the middle of the call
SaveCrash ==
    /\ SaveAt({"writing", "closed"})
    /\ save' = [save EXCEPT !.pc = "crashed"]
    /\ UNCHANGED <<ret, calls, disk>>
    /\ SaveFrame

SaveInit == InitWith({ScenarioBundle, BundleB})

SaveNext ==
    \/ SaveAt({"idle"}) /\ ran = {} /\ ParseAll
    \/ SaveAt({"idle"}) /\ "parse_all" \in ran /\ "correlate_all" \notin ran /\ CorrelateAll
    \/ SaveOpen
    \/ SaveWrite
    \/ SaveClose
    \/ SaveReplace
    \/ SaveRaises
    \/ SaveCrash

SpecSave == SaveInit /\ [][SaveNext]_vars

(***************************************************************************)
(* Two callers on one graph, without a lock: a call of add_entity or of    *)
(* add_relationship is its lookup (the validation, then the index lookup   *)
(* or the duplicate scan, and the merge when it finds something) and, when *)
(* the lookup found nothing, its insert; the other caller may run between  *)
(* the two.                                                                *)
(***************************************************************************)
\* the caller t is between two calls and has calls left
CanCall(t) == threads.of[t].pc = "idle" /\ threads.of[t].made < MaxRaceCalls

\* the caller t starts a call: two calls overlap if another one is in progress
Begins(t, pc, args) ==
    threads' = [of |-> [threads.of EXCEPT ![t] = [pc |-> pc, made |-> @.made + 1,
                                                  args |-> args]],
                overlapped |-> \/ threads.overlapped
                               \/ \E u \in Callers \ {t} : threads.of[u].pc # "idle"]

\* the caller t ends its call
Ends(t) ==
    threads' = [threads EXCEPT !.of[t] = [pc |-> "idle", made |-> @.made]]

\* add_entity up to the index lookup, and the branch of an existing key
RaceAddEntity(t, entity_type, value, source, metadata) ==
    LET args == [entity_type |-> entity_type, value |-> value, source |-> source,
                 metadata |-> metadata]
        r == add_entity(Graph, entity_type, value, source, metadata)
    IN  /\ CanCall(t)
        /\ IF value # <<>> /\ index_get(value_index, entity_key(entity_type, value)) = None
           THEN /\ Begins(t, "create_entity", args)
                /\ UNCHANGED <<entities, relationships, value_index, draws, clock, ret, calls>>
           ELSE /\ Begins(t, "idle", args)
                /\ SetGraph(r.g)
                /\ Called("add_entity", args, r.id, r.raised)
        /\ UNCHANGED <<raw_data, target, root_domain_id, ran, disk, save>>

\* add_entity from the creation of the entity on
RaceCreateEntity(t) ==
    /\ threads.of[t].pc = "create_entity"
    /\ LET a == threads.of[t].args
           r == create_entity(Graph, a.entity_type, a.value, a.source, a.metadata)
       IN  /\ SetGraph(r.g)
           /\ Called("add_entity", a, r.id, r.raised)
    /\ Ends(t)
    /\ UNCHANGED <<raw_data, target, root_domain_id, ran, disk, save>>

\* add_relationship up to the duplicate scan, and the branch of a duplicate
RaceAddRelationship(t, source_id, target_id, rel_type, confidence, metadata) ==
    LET args == [source_id |-> source_id, target_id |-> target_id, rel_type |-> rel_type,
                 confidence |-> confidence, metadata |-> metadata]
        r == add_relationship(Graph, source_id, target_id, rel_type, confidence, metadata)
    IN  /\ CanCall(t)
        /\ IF /\ endpoints_exist(entities, source_id, target_id)
              /\ \A i \in 1..Len(relationships) :
                     ~same_triple(relationships[i], source_id, target_id, rel_type)
           THEN /\ Begins(t, "create_relationship", args)
                /\ UNCHANGED <<entities, relationships, value_index, draws, clock, ret, calls>>
           ELSE /\ Begins(t, "idle", args)
                /\ SetGraph(r.g)
                /\ Called("add_relationship", args, r.id, r.raised)
        /\ UNCHANGED <<raw_data, target, root_domain_id, ran, disk, save>>

\* add_relationship from the creation of the relationship on
RaceCreateRelationship(t) ==
    /\ threads.of[t].pc = "create_relationship"
    /\ LET a == threads.of[t].args
           r == create_relationship(Graph, a.source_id, a.target_id, a.rel_type,
                                    a.confidence, a.metadata)
       IN  /\ SetGraph(r.g)
           /\ Called("add_relationship", a, r.id, r.raised)
    /\ Ends(t)
    /\ UNCHANGED <<raw_data, target, root_domain_id, ran, disk, save>>

RaceInit == InitWith({BundleA})

RaceNext ==
    \E t \in Callers :
        \/ \E value \in {<<"d">>, <<" ","D">>} :
               RaceAddEntity(t, T_email, value, S_source1, NoMeta)
        \/ RaceCreateEntity(t)
        \/ \E target_id \in EndpointIds :
               RaceAddRelationship(t, root_domain_id, target_id, R_related_to, 90, NoMeta)
        \/ RaceCreateRelationship(t)

SpecRace == RaceInit /\ [][RaceNext]_vars

(***************************************************************************)
(* The email parsers alone: parse_whois and parse_emails on the emails of  *)
(* a bundle, any number of times in any order.                             *)
(***************************************************************************)
EmailsInit == InitWith(EmailBundles)

EmailsNext ==
    \/ calls < MaxEmailCalls /\ ParseWhois
    \/ calls < MaxEmailCalls /\ ParseEmails

SpecEmails == EmailsInit /\ [][EmailsNext]_vars

(***************************************************************************)
(* The web-endpoint parser, before and after the subdomains are parsed.    *)
(***************************************************************************)
EndpointsInit == InitWith(EndpointBundles)

EndpointsNext ==
    \/ calls < MaxEndpointCalls /\ ParseSubdomains
    \/ calls < MaxEndpointCalls /\ ParseWebEndpoints

SpecEndpoints == EndpointsInit /\ [][EndpointsNext]_vars

(***************************************************************************)
(* add_entity with the id as uuid4 gives it: _short_id takes the first 8   *)
(* hexadecimal digits of a random uuid and add_entity stores the entity    *)
(* under it without looking whether the id is in use.                      *)
(***************************************************************************)
\* graph.add_entity(entity_type, value, source, metadata), uuid4 yielding draw
AddEntityDrawing(draw, entity_type, value, source, metadata) ==
    LET r == add_entity([Graph EXCEPT !.draws = draw], entity_type, value, source, metadata)
    IN  /\ SetGraph(r.g)
        /\ Called("add_entity",
                  [entity_type |-> entity_type, value |-> value, source |-> source,
                   metadata |-> metadata],
                  r.id, r.raised)
        /\ UNCHANGED <<raw_data, target, root_domain_id, ran, disk, save, threads>>

IdsInit == InitWith({BundleA})

IdsNext ==
    \E draw \in Draws, entity_type \in EntityTypes, value \in {<<"d">>, <<" ","D">>, <<"e">>} :
        calls < MaxIdCalls /\ AddEntityDrawing(draw, entity_type, value, S_source1, NoMeta)

SpecIds == IdsInit /\ [][IdsNext]_vars

(***************************************************************************)
(* The email-subdomain correlation over entities that callers of           *)
(* add_entity have stored, at any moment between their calls.              *)
(***************************************************************************)
\* the values of the email entities: a.io and w.a.io addresses, one in capitals,
\* one of a domain without a dot, one that ends at the at sign, one without it
V_d_w_a_io == <<"d","@">> \o V_w_a_io
V_d_at == <<"d","@">>
CorrelatedEmails == {V_d_a_io, V_d_w_a_io, V_D_A_io, V_d_a, V_d_at, <<"d">>}

\* the values of the subdomain entities
V_io == <<"i","o">>
CorrelatedSubdomains == {V_a_io, V_w_a_io, V_W_a_io, V_io}

MaxCorrelationCalls == 3

CorrelationInit == InitWith({BundleA})

CorrelationNext ==
    \/ \E value \in CorrelatedEmails :
           calls < MaxCorrelationCalls /\ AddEntity(T_email, value, S_source1, NoMeta)
    \/ \E value \in CorrelatedSubdomains :
           calls < MaxCorrelationCalls /\ AddEntity(T_subdomain, value, S_source1, NoMeta)
    \/ calls < MaxCorrelationCalls + 1 /\ CorrelateEmailsAndSubdomains

SpecCorrelation == CorrelationInit /\ [][CorrelationNext]_vars

(***************************************************************************)
(* The subdomain parser alone.                                             *)
(***************************************************************************)
SubdomainsInit == InitWith(SubdomainBundles)

SubdomainsNext == calls < MaxSubdomainCalls /\ ParseSubdomains

SpecSubdomains == SubdomainsInit /\ [][SubdomainsNext]_vars

(***************************************************************************)
(* The read operations, on the graphs of a run of the pipeline.            *)
(***************************************************************************)
ReadOps == {"get_entity_by_value", "get_connected_entities", "to_dict"}

\* a read operation returns: the graph is the one the method leaves
Returned(op, args, r) ==
    /\ calls < MaxReadCalls
    /\ SetGraph(r.g)
    /\ ret' = [op |-> op, args |-> args, value |-> r.value, raised |-> "none"]
    /\ calls' = calls + 1
    /\ UNCHANGED <<raw_data, target, root_domain_id, ran, disk, save, threads>>

GetEntityByValue(value, entity_type) ==
    Returned("get_entity_by_value", [value |-> value, entity_type |-> entity_type],
             Read(Graph, get_entity_by_value(Graph, value, entity_type)))

GetConnectedEntities(entity_id) ==
    Returned("get_connected_entities", [entity_id |-> entity_id],
             Read(Graph, get_connected_entities(Graph, relationships, entity_id)))

ToDict ==
    Returned("to_dict", <<>>, Read(Graph, to_dict(Graph, target)))

\* the values looked up: stored ones in another spelling (one of them the
\* value of a subdomain and of a nameserver), and one that no entity has
LookupValues ==
    {<<" ">> \o V_example_com, <<"A","d","m","i","n">>, V_W_a_io, V_nginx, <<" ">> \o V_ns_a_io}

ReadInit == InitWith({ScenarioBundle, BundleB, BundleC})

ReadNext ==
    \/ calls < MaxReadCalls /\ ran = {} /\ ParseAll
    \/ calls < MaxReadCalls /\ "parse_all" \in ran /\ "correlate_all" \notin ran
          /\ CorrelateAll
    \/ \E value \in LookupValues, entity_type \in {None, T_domain, T_nameserver} :
           GetEntityByValue(value, entity_type)
    \/ \E entity_id \in EndpointIds : GetConnectedEntities(entity_id)
    \/ ToDict

SpecRead == ReadInit /\ [][ReadNext]_vars

(***************************************************************************)
(* Vocabulary of the properties                                            *)
(***************************************************************************)
\* the (type, normalized value) pair of an entity
NormPair(e) == <<e.type, normalize_value(e.value)>>

\* the positions of the entities holding a (type, normalized value) pair
Holders(ents, entity_type, value) ==
    {i \in 1..Len(ents) : NormPair(ents[i]) = <<entity_type, normalize_value(value)>>}

\* the step is a call of the method op
IsCall(op) == calls' = calls + 1 /\ ret'.op = op

\* the positions of the relationships of a triple
TripleHolders(rels, source_id, target_id, rel_type) ==
    {i \in 1..Len(rels) : /\ rels[i].source_id = source_id
                          /\ rels[i].target_id = target_id
                          /\ rels[i].relationship_type = rel_type}

\* the ids of the entities
EntityIds == {entities[i].id : i \in 1..Len(entities)}

(***************************************************************************)
(* C1: identity resolution.  In every reachable graph at most one entity   *)
(* exists per (type, normalized value) pair, and an add_entity call whose  *)
(* pair is already held by an entity returns that entity's id (the id the  *)
(* first call returned) without raising the entity count.                  *)
(***************************************************************************)
C1_OnePerPair ==
    \A i, j \in 1..Len(entities) : NormPair(entities[i]) = NormPair(entities[j]) => i = j

C1_ReAddStep ==
    IsCall("add_entity")
    => LET held == Holders(entities, ret'.args.entity_type, ret'.args.value)
       IN  held # {} => /\ ret'.raised = "none"
                        /\ \A i \in held : ret'.id = entities[i].id
                        /\ Len(entities') = Len(entities)

C1_IdentityResolution == [](C1_OnePerPair) /\ [][C1_ReAddStep]_vars

\* a second add_entity of a pair, spelled differently, has returned the first id
C1_Witness ==
    /\ ret.op = "add_entity"
    /\ ret.raised = "none"
    /\ \E i \in 1..Len(entities) :
           /\ entities[i].id = ret.id
           /\ entities[i].value # ret.args.value
           /\ normalize_value(entities[i].value) = normalize_value(ret.args.value)

(***************************************************************************)
(* C2: re-adding an existing pair changes nothing but the metadata of the  *)
(* existing entity, into which the given keys are merged (the new value    *)
(* wins): its id, type, value, source and timestamp stay, as do every      *)
(* other entity, every relationship and the index.                         *)
(***************************************************************************)
C2_ReAddFrameStep ==
    IsCall("add_entity")
    => LET held == Holders(entities, ret'.args.entity_type, ret'.args.value)
           given == ret'.args.metadata
       IN  held # {}
           => /\ Len(entities') = Len(entities)
              /\ \A i \in 1..Len(entities) :
                     IF i \in held
                     THEN /\ entities'[i].id = entities[i].id
                          /\ entities'[i].type = entities[i].type
                          /\ entities'[i].value = entities[i].value
                          /\ entities'[i].source = entities[i].source
                          /\ entities'[i].timestamp = entities[i].timestamp
                          /\ DOMAIN entities'[i].metadata
                                 = (DOMAIN entities[i].metadata) \cup (DOMAIN given)
                          /\ \A k \in DOMAIN entities'[i].metadata :
                                 entities'[i].metadata[k]
                                     = IF k \in DOMAIN given THEN given[k]
                                       ELSE entities[i].metadata[k]
                     ELSE entities'[i] = entities[i]
              /\ relationships' = relationships
              /\ value_index' = value_index

C2_ReAddMergesOnlyMetadata == [][C2_ReAddFrameStep]_vars

\* a re-add under another source has merged a key into an entity that keeps
\* its own source and a key the call did not give
C2_Witness ==
    /\ ret.op = "add_entity"
    /\ ret.raised = "none"
    /\ \E i \in 1..Len(entities) :
           /\ entities[i].id = ret.id
           /\ entities[i].source # ret.args.source
           /\ DOMAIN ret.args.metadata # {}
           /\ (DOMAIN entities[i].metadata) \ (DOMAIN ret.args.metadata) # {}
           /\ \A k \in DOMAIN ret.args.metadata :
                  entities[i].metadata[k] = ret.args.metadata[k]

(***************************************************************************)
(* C3: relationship deduplication.  In every reachable graph at most one   *)
(* relationship exists per (source_id, target_id, relationship_type)       *)
(* triple, and an add_relationship call whose triple is already held       *)
(* returns the id of the relationship that holds it, merges the given      *)
(* metadata into it and leaves the number of relationships as it was.      *)
(***************************************************************************)
C3_OnePerTriple ==
    \A i, j \in 1..Len(relationships) :
        same_triple(relationships[i], relationships[j].source_id,
                    relationships[j].target_id, relationships[j].relationship_type)
        => i = j

C3_ReAddStep ==
    IsCall("add_relationship")
    => LET a == ret'.args
           held == TripleHolders(relationships, a.source_id, a.target_id, a.rel_type)
       IN  held # {}
           => /\ ret'.raised = "none"
              /\ Len(relationships') = Len(relationships)
              /\ \A i \in held :
                     /\ ret'.id = relationships[i].id
                     /\ relationships'[i].id = relationships[i].id
                     /\ DOMAIN relationships'[i].metadata
                            = (DOMAIN relationships[i].metadata) \cup (DOMAIN a.metadata)
                     /\ \A k \in DOMAIN relationships'[i].metadata :
                            relationships'[i].metadata[k]
                                = IF k \in DOMAIN a.metadata THEN a.metadata[k]
                                  ELSE relationships[i].metadata[k]

C3_RelationshipDeduplication == [](C3_OnePerTriple) /\ [][C3_ReAddStep]_vars

\* a second add_relationship of a triple, under another confidence, has returned
\* the first id and merged its metadata into the relationship, the only one of
\* its type
C3_Witness ==
    /\ ret.op = "add_relationship"
    /\ ret.raised = "none"
    /\ calls = 2
    /\ DOMAIN ret.args.metadata # {}
    /\ \E i \in 1..Len(relationships) :
           /\ relationships[i].id = ret.id
           /\ relationships[i].confidence # ret.args.confidence
           /\ \A k \in DOMAIN ret.args.metadata :
                  relationships[i].metadata[k] = ret.args.metadata[k]
    /\ Cardinality({i \in 1..Len(relationships) :
                        relationships[i].relationship_type = R_related_to}) = 1

(***************************************************************************)
(* C4: add_relationship with a source_id or a target_id that is no         *)
(* entity's id raises an exception and returns no id, and the entities,    *)
(* the relationships and the index are after the call what they were       *)
(* before it.                                                              *)
(***************************************************************************)
C4_UnknownEndpointStep ==
    (/\ IsCall("add_relationship")
     /\ \/ ret'.args.source_id \notin EntityIds
        \/ ret'.args.target_id \notin EntityIds)
    => /\ ret'.raised # "none"
       /\ ret'.id = None
       /\ entities' = entities
       /\ relationships' = relationships
       /\ value_index' = value_index

C4_UnknownEndpointFails == [][C4_UnknownEndpointStep]_vars

\* a call with one endpoint that exists and one that does not has raised
C4_Witness ==
    /\ ret.op = "add_relationship"
    /\ ret.raised = "KeyError"
    /\ ret.args.source_id \in EntityIds
    /\ ret.args.target_id \notin EntityIds
    /\ confidence_in_range(ret.args.confidence)

(***************************************************************************)
(* C5: add_relationship with endpoints that exist and a confidence outside *)
(* [0.0, 1.0] raises an exception and leaves the graph as it was, in every *)
(* state, one where a relationship of the same triple exists included.     *)
(***************************************************************************)
C5_ConfidenceStep ==
    (/\ IsCall("add_relationship")
     /\ ret'.args.source_id \in EntityIds
     /\ ret'.args.target_id \in EntityIds
     /\ ~confidence_in_range(ret'.args.confidence))
    => /\ ret'.raised # "none"
       /\ entities' = entities
       /\ relationships' = relationships
       /\ value_index' = value_index

C5_ConfidenceOutOfRangeFails == [][C5_ConfidenceStep]_vars

(***************************************************************************)
(* C6: add_entity with a value that is empty after normalization (empty,   *)
(* or whitespace only) raises an exception and creates no entity and no    *)
(* index entry; so no entity of a reachable graph has an empty normalized  *)
(* value.                                                                  *)
(***************************************************************************)
C6_NoEmptyValue ==
    \A i \in 1..Len(entities) : normalize_value(entities[i].value) # <<>>

C6_EmptyValueStep ==
    (IsCall("add_entity") /\ normalize_value(ret'.args.value) = <<>>)
    => /\ ret'.raised # "none"
       /\ entities' = entities
       /\ value_index' = value_index

C6_EmptyValueFails == [](C6_NoEmptyValue) /\ [][C6_EmptyValueStep]_vars

(***************************************************************************)
(* C7: parser idempotence.  A call of one of the six parsers that follows  *)
(* a call of the same parser, with the same input (the bundle's), leaves   *)
(* the number of entities and the number of relationships what they were   *)
(* after the first call.                                                   *)
(***************************************************************************)
C7_SecondCallStep ==
    (\E op \in ParserMethods : ret.op = op /\ IsCall(op))
    => /\ Len(entities') = Len(entities)
       /\ Len(relationships') = Len(relationships)

C7_ParserIdempotence == [][C7_SecondCallStep]_vars

(***************************************************************************)
(* Vocabulary of the pipeline's properties                                 *)
(***************************************************************************)
\* the entities of a graph, by type and normalized value
EntSet(ents) == {NormPair(ents[i]) : i \in 1..Len(ents)}

\* the (type, normalized value) pair of the entity of an id
PairOf(ents, id) == NormPair(ents[Pos(ents, id)])

\* the relationships of a graph, by source entity, target entity and type,
\* those of the types in skipped left out
RelSet(ents, rels, skipped) ==
    {<<PairOf(ents, rels[i].source_id), PairOf(ents, rels[i].target_id),
       rels[i].relationship_type>> :
         i \in {j \in 1..Len(rels) : rels[j].relationship_type \notin skipped}}

\* the graph parse_all makes of the bundle, from the graph of the constructor
InOrder == parse_all(OSINTParser_init(raw_data.target).g, target, root_domain_id, raw_data)

\* the six parsers have run one by one, and nothing after them
OneByOne == ran = ParserMethods

\* the number of relationship ends that name an entity
Degree(rels, id) ==
    Cardinality({e \in (1..Len(rels)) \X {"source", "target"} :
                     IF e[2] = "source" THEN rels[e[1]].source_id = id
                     ELSE rels[e[1]].target_id = id})

(***************************************************************************)
(* C8, as stated: the six parsers, run over a bundle in any order, yield   *)
(* the same set of entities (by type and normalized value) and the same    *)
(* set of relationships (by source entity, target entity and type) as      *)
(* parse_all's order.                                                      *)
(***************************************************************************)
C8_OrderTolerant ==
    OneByOne => /\ EntSet(entities) = EntSet(InOrder.entities)
                /\ RelSet(entities, relationships, {})
                       = RelSet(InOrder.entities, InOrder.relationships, {})

(***************************************************************************)
(* C8, amended: the six parsers, run over a bundle in any order, yield the *)
(* same set of entities as parse_all's order and the same set of           *)
(* relationships of every type but hosted_on and profile_of.               *)
(***************************************************************************)
C8_OrderTolerantButLinks ==
    OneByOne => /\ EntSet(entities) = EntSet(InOrder.entities)
                /\ RelSet(entities, relationships, {R_hosted_on, R_profile_of})
                       = RelSet(InOrder.entities, InOrder.relationships,
                                {R_hosted_on, R_profile_of})

\* the six parsers have run in an order that is not parse_all's, and the
\* relationships are not parse_all's
C8_Witness ==
    /\ OneByOne
    /\ ret.op # "parse_social_profiles"
    /\ RelSet(entities, relationships, {})
           # RelSet(InOrder.entities, InOrder.relationships, {})

(***************************************************************************)
(* C9: high-value detection.  After correlate_all every entity of degree   *)
(* 3 or more carries high_value_target = true and connection_count = its   *)
(* degree, and no entity of degree 2 or less carries high_value_target;    *)
(* the degree is the number of relationship ends that name the entity.     *)
(***************************************************************************)
C9_HighValueDetection ==
    ret.op = "correlate_all"
    => \A i \in 1..Len(entities) :
           LET degree == Degree(relationships, entities[i].id)
               metadata == entities[i].metadata
           IN  /\ degree >= 3 => /\ "high_value_target" \in DOMAIN metadata
                                 /\ metadata.high_value_target = TRUE
                                 /\ "connection_count" \in DOMAIN metadata
                                 /\ metadata.connection_count = degree
               /\ degree <= 2 => "high_value_target" \notin DOMAIN metadata

\* after correlate_all an entity of degree 3 is flagged with connection_count 3
\* and one of degree 2 is not flagged
C9_Witness ==
    /\ ret.op = "correlate_all"
    /\ \E i, j \in 1..Len(entities) :
           /\ Degree(relationships, entities[i].id) = 3
           /\ "connection_count" \in DOMAIN entities[i].metadata
           /\ entities[i].metadata.connection_count = 3
           /\ Degree(relationships, entities[j].id) = 2
           /\ "high_value_target" \notin DOMAIN entities[j].metadata

(***************************************************************************)
(* Vocabulary of the scenario                                              *)
(***************************************************************************)
\* parse_all, then correlate_all, over the bundle of the scenario
ScenarioDone ==
    raw_data = ScenarioBundle /\ "parse_all" \in ran /\ ret.op = "correlate_all"

\* the email_from_subdomain relationships, by source entity and target entity
EmailFromSubdomain ==
    {<<r[1], r[2]>> : r \in {t \in RelSet(entities, relationships, {}) :
                                 t[3] = R_email_from_subdomain}}

(***************************************************************************)
(* C10, as stated: for target example.com, subdomains www.example.com and  *)
(* vpn.example.com and email admin@example.com, the graph after parse_all  *)
(* and correlate_all holds no relationship of type email_from_subdomain.   *)
(***************************************************************************)
C10_NoEmailFromSubdomain == ScenarioDone => EmailFromSubdomain = {}

(***************************************************************************)
(* C10, amended: for that bundle the graph after parse_all and             *)
(* correlate_all holds exactly two relationships of type                   *)
(* email_from_subdomain, from admin@example.com to www.example.com and to  *)
(* vpn.example.com.                                                        *)
(***************************************************************************)
C10_EmailFromBothSubdomains ==
    ScenarioDone
    => /\ EmailFromSubdomain
              = {<<<<T_email, V_admin_example_com>>, <<T_subdomain, V_www_example_com>>>>,
                 <<<<T_email, V_admin_example_com>>, <<T_subdomain, V_vpn_example_com>>>>}
       /\ Cardinality({i \in 1..Len(relationships) :
                           relationships[i].relationship_type = R_email_from_subdomain}) = 2

\* the scenario has run: five entities, and seven relationships of which
\* correlate_all made two
C10_Witness ==
    /\ ScenarioDone
    /\ Len(entities) = 5
    /\ Len(relationships) = 7
    /\ Len(InOrder.relationships) = 5

(***************************************************************************)
(* Vocabulary of the username scenario                                     *)
(***************************************************************************)
\* the emails parser has processed dev@test.example.com and
\* dev@sales.example.com, and the username correlation has run
UsernameScenarioDone ==
    /\ raw_data = UsernameBundle
    /\ \/ "correlate_usernames_across_sources" \in ran
       \/ "correlate_all" \in ran

\* the positions of the relationships of a type
OfType(rel_type) ==
    {i \in 1..Len(relationships) : relationships[i].relationship_type = rel_type}

\* the positions of the entities of a type
EntitiesOfType(entity_type) == {i \in 1..Len(entities) : entities[i].type = entity_type}

(***************************************************************************)
(* C11, as stated: after the emails parser has processed                   *)
(* dev@test.example.com and dev@sales.example.com and the username         *)
(* correlation has run, exactly one relationship of type same_username     *)
(* exists, between the two derived username entities, of confidence 1.0.   *)
(***************************************************************************)
C11_OneSameUsername ==
    UsernameScenarioDone
    => /\ Cardinality(OfType(R_same_username)) = 1
       /\ \A i \in OfType(R_same_username) :
              /\ relationships[i].source_id # relationships[i].target_id
              /\ PairOf(entities, relationships[i].source_id) = <<T_username, <<"d","e","v">>>>
              /\ PairOf(entities, relationships[i].target_id) = <<T_username, <<"d","e","v">>>>
              /\ relationships[i].confidence = 100

(***************************************************************************)
(* C11, amended: in that scenario the two emails yield one username        *)
(* entity "dev", which a username_of relationship links to each of the two *)
(* emails, and after the username correlation no relationship of type      *)
(* same_username exists.                                                   *)
(***************************************************************************)
C11_OneUsernameNoLink ==
    UsernameScenarioDone
    => /\ Cardinality(EntitiesOfType(T_username)) = 1
       /\ \A i \in EntitiesOfType(T_username) : entities[i].value = <<"d","e","v">>
       /\ {<<t[1], t[2]>> : t \in {u \in RelSet(entities, relationships, {}) :
                                       u[3] = R_username_of}}
              = {<<<<T_username, <<"d","e","v">>>>, <<T_email, V_dev_test>>>>,
                 <<<<T_username, <<"d","e","v">>>>, <<T_email, V_dev_sales>>>>}
       /\ OfType(R_same_username) = {}

\* the username correlation has just run over the two emails' graph: four
\* entities, of which two emails
C11_Witness ==
    /\ UsernameScenarioDone
    /\ ret.op = "correlate_usernames_across_sources"
    /\ Len(entities) = 4
    /\ Cardinality(EntitiesOfType(T_email)) = 2

(***************************************************************************)
(* Vocabulary of the correlation passes                                    *)
(***************************************************************************)
\* parse_all, then the three correlation passes one by one
PassesDone == "parse_all" \in ran /\ CorrelationMethods \subseteq ran

\* the graph correlate_all makes of the graph of parse_all
InOrderCorrelated == correlate_all(InOrder)

\* the high-value metadata of a graph: entity, high_value_target, connection_count
Flags(ents) ==
    {<<NormPair(ents[i]), ents[i].metadata.high_value_target,
       ents[i].metadata.connection_count>> :
         i \in {j \in 1..Len(ents) : "high_value_target" \in DOMAIN ents[j].metadata}}

(***************************************************************************)
(* C12, as stated: the three correlation passes, run over the same parsed  *)
(* graph in any of the six orders, produce the same relationships and the  *)
(* same high_value_target / connection_count metadata on every entity.     *)
(***************************************************************************)
C12_PassOrderFree ==
    PassesDone
    => /\ RelSet(entities, relationships, {})
              = RelSet(InOrderCorrelated.entities, InOrderCorrelated.relationships, {})
       /\ Flags(entities) = Flags(InOrderCorrelated.entities)

(***************************************************************************)
(* C12, amended: the three passes, run over the same parsed graph in any   *)
(* of the six orders, produce the same relationships; the high_value_target*)
(* / connection_count metadata are those of correlate_all's order when the *)
(* high-value detection runs last.                                         *)
(***************************************************************************)
C12_PassOrderFreeButDetection ==
    PassesDone
    => /\ RelSet(entities, relationships, {})
              = RelSet(InOrderCorrelated.entities, InOrderCorrelated.relationships, {})
       /\ ret.op = "identify_high_value_targets"
              => Flags(entities) = Flags(InOrderCorrelated.entities)

\* the detection has run before another pass: the relationships are those of
\* correlate_all's order, the high-value metadata are not
C12_Witness ==
    /\ PassesDone
    /\ ret.op # "identify_high_value_targets"
    /\ RelSet(entities, relationships, {})
           = RelSet(InOrderCorrelated.entities, InOrderCorrelated.relationships, {})
    /\ Flags(entities) # Flags(InOrderCorrelated.entities)

(***************************************************************************)
(* Vocabulary of the persistence                                           *)
(***************************************************************************)
\* the file holds the whole of a document
Complete(file) == file.exists /\ file.written = chunks(file.doc)

\* the file holds the whole of the document doc
CompleteOf(file, doc) == Complete(file) /\ file.doc = doc

(***************************************************************************)
(* C13: atomic persistence.  save_graph writes the document to a temporary *)
(* file in the directory of the target path, which is not the target path, *)
(* and only then renames it onto the target path: at every step, a crash   *)
(* or a write failure included, the file at the target path is absent, its *)
(* previous complete content or the complete new document, never a partial *)
(* one; a write failure is raised to the caller.                           *)
(***************************************************************************)
C13_TargetNeverPartial == disk[OutPath].exists => Complete(disk[OutPath])

C13_WritesBeside ==
    /\ tmp_path(OutPath).parent = OutPath.parent
    /\ tmp_path(OutPath) # OutPath
    /\ SaveAt({"writing", "closed", "crashed"}) => disk[tmp_path(OutPath)].exists

C13_FailureStep ==
    save'.failures > save.failures => ret'.op = "save_graph" /\ ret'.raised # "none"

C13_TargetStep ==
    \/ disk'[OutPath] = disk[OutPath]
    \/ /\ SaveAt({"closed"})
       /\ CompleteOf(disk'[OutPath], save.doc)
       /\ ret'.raised = "none"

C13_AtomicPersistence ==
    /\ [](C13_TargetNeverPartial /\ C13_WritesBeside)
    /\ [][C13_TargetStep /\ C13_FailureStep]_vars

\* after a save that raised, a later save has crashed in the middle of its
\* writes: the temporary file is partial and the target path holds the whole
\* document of an earlier save, which is not the document being written
C13_Witness ==
    /\ SaveAt({"crashed"})
    /\ ~Complete(disk[tmp_path(OutPath)])
    /\ disk[tmp_path(OutPath)].written > 0
    /\ Complete(disk[OutPath])
    /\ disk[OutPath].doc # save.doc
    /\ save.failures > 0

(***************************************************************************)
(* C14: the engine has no lock.  Two add_entity calls of one (type,        *)
(* normalized value) pair that interleave between the index lookup and the *)
(* insert both create an entity, and two add_relationship calls of one     *)
(* triple that interleave between the duplicate scan and the insert both   *)
(* create a relationship; as long as no two calls have overlapped, the     *)
(* graph holds one entity per pair and one relationship per triple.        *)
(***************************************************************************)
C14_SingleWriterNoDuplicates ==
    ~threads.overlapped => C1_OnePerPair /\ C3_OnePerTriple

\* two entities of one pair and two relationships of one triple, after calls
\* that overlapped
C14_Witness ==
    /\ threads.overlapped
    /\ \E i, j \in 1..Len(entities) : i # j /\ NormPair(entities[i]) = NormPair(entities[j])
    /\ \E i, j \in 1..Len(relationships) :
           /\ i # j
           /\ same_triple(relationships[i], relationships[j].source_id,
                          relationships[j].target_id, relationships[j].relationship_type)

(***************************************************************************)
(* C15: the read operations get_entity_by_value, get_connected_entities    *)
(* and to_dict leave the entities (their metadata included), the           *)
(* relationships and the value index unchanged, for every argument, an     *)
(* unknown value and an unknown entity id included, and a read called      *)
(* twice in one graph state returns equal results.                         *)
(***************************************************************************)
IsRead(r) == r.op \in ReadOps

C15_ReadLeavesGraph ==
    IsRead(ret') /\ calls' # calls
        => UNCHANGED <<entities, relationships, value_index>>

C15_SameReadSameResult ==
    IsRead(ret) /\ IsRead(ret') /\ ret'.op = ret.op /\ ret'.args = ret.args
        => ret'.value = ret.value

C16_ReferentialIntegrity ==
    \A i \in 1..Len(relationships) :
        /\ relationships[i].source_id \in EntityIds
        /\ relationships[i].target_id \in EntityIds

\* relationships stored by a parser, then an add_relationship call with an
\* unknown endpoint
C16_Witness ==
    /\ Len(relationships) >= 2
    /\ ran # {}
    /\ ret.op = "add_relationship"
    /\ GhostId \in {ret.args.source_id, ret.args.target_id}

(***************************************************************************)
(* C17: the graph is append-only.  Across every add_entity,                *)
(* add_relationship, parser or correlation step every entity id and every  *)
(* relationship id stays (so the relationship count never goes down), the  *)
(* type, value, source and timestamp of an entity and the endpoints, type  *)
(* and confidence of a relationship stay as they are, and the metadata of  *)
(* both only gains keys.                                                   *)
(***************************************************************************)
KeptEntity(old, new) ==
    /\ new.id = old.id
    /\ new.type = old.type
    /\ new.value = old.value
    /\ new.source = old.source
    /\ new.timestamp = old.timestamp
    /\ DOMAIN old.metadata \subseteq DOMAIN new.metadata

KeptRelationship(old, new) ==
    /\ new.id = old.id
    /\ new.source_id = old.source_id
    /\ new.target_id = old.target_id
    /\ new.relationship_type = old.relationship_type
    /\ new.confidence = old.confidence
    /\ DOMAIN old.metadata \subseteq DOMAIN new.metadata

C17_AppendStep ==
    /\ Len(entities') >= Len(entities)
    /\ Len(relationships') >= Len(relationships)
    /\ \A i \in 1..Len(entities) :
           \E j \in 1..Len(entities') : KeptEntity(entities[i], entities'[j])
    /\ \A i \in 1..Len(relationships) :
           \E j \in 1..Len(relationships') :
               KeptRelationship(relationships[i], relationships'[j])

HasEmailShape(email) == MatchesEmailPattern(email, Len(email))

InputEmails == Range(Get(raw_data, "emails", <<>>))

C18_InvalidEmailsSkipped ==
    /\ ret.raised = "none"
    /\ \A i \in 1..Len(entities) :
           /\ entities[i].type = T_email
                  => \E e \in InputEmails : HasEmailShape(e) /\ entities[i].value = e
           /\ entities[i].type = T_username
                  => \E e \in InputEmails :
                         HasEmailShape(e) /\ entities[i].value = Split(e, "@")[1]
    /\ \A i \in 1..Len(relationships) :
           \E j \in 1..Len(entities) :
               /\ entities[j].id = relationships[i].source_id
               /\ entities[j].type \in {T_email, T_username}

\* parse_emails has made an email entity whose value ends in a newline, and
\* has skipped the string without a top-level domain
C18_Witness ==
    /\ "parse_emails" \in ran
    /\ V_d_a \in InputEmails
    /\ \E i \in 1..Len(entities) :
           /\ entities[i].type = T_email
           /\ entities[i].value = V_d_a_io_nl
           /\ ~HasEmailShape(entities[i].value)
    /\ \A i \in 1..Len(entities) : entities[i].value # V_d_a

(***************************************************************************)
(* C19: the web-endpoint parser admits only the probe results whose        *)
(* status_code is 200 and whose url is not empty.  No call raises; every   *)
(* url entity has the url of such a probe result and metadata              *)
(* status_code = 200; once the parser has run there is one url entity per  *)
(* admitted url and before that none; every hosted_on relationship starts  *)
(* at a url entity: any other probe result adds nothing.                   *)
(***************************************************************************)
InputProbes == Range(Get(raw_data, "web_endpoints", <<>>))

Admitted(probe) ==
    /\ "url" \in DOMAIN probe
    /\ probe.url # <<>>
    /\ "status_code" \in DOMAIN probe
    /\ probe.status_code = 200

UrlEntities == {i \in 1..Len(entities) : entities[i].type = T_url}

C19_OnlyHealthyEndpoints ==
    /\ ret.raised = "none"
    /\ \A i \in UrlEntities :
           /\ "status_code" \in DOMAIN entities[i].metadata
           /\ entities[i].metadata.status_code = 200
           /\ \E probe \in InputProbes : Admitted(probe) /\ probe.url = entities[i].value
    /\ Cardinality(UrlEntities) =
           IF "parse_web_endpoints" \in ran
           THEN Cardinality({normalize_value(probe.url) :
                                 probe \in {q \in InputProbes : Admitted(q)}})
           ELSE 0
    /\ \A i \in 1..Len(relationships) :
           relationships[i].relationship_type = R_hosted_on
               => \E j \in UrlEntities : entities[j].id = relationships[i].source_id

\* the parser has run on a probe result that answered 404 and on one that
\* answered 200: one url entity, hosted on the subdomain
C19_Witness ==
    /\ "parse_web_endpoints" \in ran
    /\ [url |-> U_w_x, status_code |-> 404] \in InputProbes
    /\ Cardinality(UrlEntities) = 1
    /\ \E i \in 1..Len(relationships) : relationships[i].relationship_type = R_hosted_on

(***************************************************************************)
(* C20: end-to-end scenario.  For target example.com, subdomains           *)
(* www.example.com and vpn.example.com, email admin@example.com and no     *)
(* other category, the graph after parse_all holds exactly 5 entities:     *)
(* the root domain, two subdomains, one email, and one derived username    *)
(* of value "admin".                                                       *)
(***************************************************************************)
ScenarioParsed == raw_data = ScenarioBundle /\ ret.op = "parse_all"

C20_ScenarioEntities ==
    ScenarioParsed =>
        /\ Len(entities) = 5
        /\ EntitiesOfType(T_domain) = {Pos(entities, root_domain_id)}
        /\ entities[Pos(entities, root_domain_id)].value = V_example_com
        /\ {entities[i].value : i \in EntitiesOfType(T_subdomain)}
               = {V_www_example_com, V_vpn_example_com}
        /\ Cardinality(EntitiesOfType(T_subdomain)) = 2
        /\ Cardinality(EntitiesOfType(T_email)) = 1
        /\ \A i \in EntitiesOfType(T_email) : entities[i].value = V_admin_example_com
        /\ Cardinality(EntitiesOfType(T_username)) = 1
        /\ \A i \in EntitiesOfType(T_username) :
               entities[i].value = <<"a","d","m","i","n">>

\* parse_all has returned on the bundle of the scenario, and the username is
\* linked to the email
C20_Witness ==
    /\ ScenarioParsed
    /\ Len(entities) = 5
    /\ \E i \in OfType(R_username_of) :
           relationships[i].source_id \in {entities[j].id : j \in EntitiesOfType(T_username)}

(***************************************************************************)
(* C21: parse_all represents every admitted input record.  After parse_all *)
(* there is a subdomain entity for every subdomain that is not blank and   *)
(* is not the target, an email entity for every email that passes          *)
(* _is_valid_email (every email of the shape is one), and a url entity for *)
(* every probe result with a url and status 200, each found under the      *)
(* normalized value of the record; so each of these types has at least as  *)
(* many entities as the category has admitted records that differ after    *)
(* normalization.                                                          *)
(***************************************************************************)
InputSubdomains == Range(Get(raw_data, "subdomains", <<>>))

AdmittedSubdomains ==
    {x \in InputSubdomains :
        normalize_value(x) # <<>> /\ normalize_value(x) # normalize_value(target)}

AdmittedEmails == {e \in InputEmails : is_valid_email(e)}

AdmittedUrls == {probe.url : probe \in {q \in InputProbes : Admitted(q)}}

\* every record has an entity of the type, and the type has an entity per
\* normalized record
Represented(records, entity_type) ==
    /\ \A x \in records :
           \E i \in EntitiesOfType(entity_type) :
               normalize_value(entities[i].value) = normalize_value(x)
    /\ Cardinality(EntitiesOfType(entity_type))
           >= Cardinality({normalize_value(x) : x \in records})

C21_AdmittedRecordsRepresented ==
    "parse_all" \in ran =>
        /\ Represented(AdmittedSubdomains, T_subdomain)
        /\ Represented(AdmittedEmails, T_email)
        /\ Represented(AdmittedUrls, T_url)

\* parse_all has returned on a bundle that has records of the three
\* categories that are admitted and records that are not
C21_Witness ==
    /\ ret.op = "parse_all"
    /\ AdmittedSubdomains # {} /\ InputSubdomains \ AdmittedSubdomains # {}
    /\ AdmittedEmails # {} /\ InputEmails \ AdmittedEmails # {}
    /\ AdmittedUrls # {} /\ \E probe \in InputProbes : ~Admitted(probe)
    /\ Cardinality(EntitiesOfType(T_url)) = Cardinality(AdmittedUrls)

(***************************************************************************)
(* C22: serialization is lossless.  The document of to_dict has one record *)
(* per entity, in order, with the keys id, type, value, source, timestamp  *)
(* and metadata and no other, and one record per relationship with the     *)
(* keys id, source_id, target_id, relationship_type, confidence and        *)
(* metadata and no other; reading the records back by key gives the entity *)
(* count, the relationship count and every field of every entity and       *)
(* relationship of the graph.                                              *)
(***************************************************************************)
\* the record d has the fields of obj, each once, and nothing else
ReadsBack(d, obj, fields) ==
    /\ Len(d) = Len(fields)
    /\ {d[k].key : k \in 1..Len(d)} = Range(fields)
    /\ Range(fields) = DOMAIN obj
    /\ \A f \in Range(fields) : item(d, f) = obj[f]

RECURSIVE SumOfCounts(_)
SumOfCounts(hist) ==
    IF hist = <<>> THEN 0 ELSE Head(hist).count + SumOfCounts(Tail(hist))

\* hist is the histogram of the field of the records
HistogramOf(hist, records, field) ==
    /\ \A i, j \in 1..Len(hist) : hist[i].key = hist[j].key => i = j
    /\ {hist[i].key : i \in 1..Len(hist)}
           = {item(records[k], field) : k \in 1..Len(records)}
    /\ \A i \in 1..Len(hist) :
           hist[i].count
               = Cardinality({k \in 1..Len(records) : item(records[k], field) = hist[i].key})
    /\ SumOfCounts(hist) = Len(records)

C23_StatsConsistent ==
    ret.op = "to_dict" =>
        LET doc == ret.value
        IN  /\ doc.stats.total_entities = Len(doc.entities)
            /\ doc.stats.total_relationships = Len(doc.relationships)
            /\ HistogramOf(doc.stats.entity_types, doc.entities, "type")
            /\ HistogramOf(doc.stats.relationship_types, doc.relationships,
                           "relationship_type")

\* to_dict has returned a document with a type that two entities have and a
\* relationship type that two relationships have
C23_Witness ==
    /\ ret.op = "to_dict"
    /\ \E i \in 1..Len(ret.value.stats.entity_types) :
           ret.value.stats.entity_types[i].count >= 2
    /\ \E i \in 1..Len(ret.value.stats.relationship_types) :
           ret.value.stats.relationship_types[i].count >= 2
    /\ Len(ret.value.stats.entity_types) >= 3

(***************************************************************************)
(* C24: risk-keyword tagging.  Every subdomain entity the subdomain parser *)
(* creates carries a risk_keywords list whose tags are "<keyword>_<tier>"  *)
(* for exactly the configured keywords of the tiers that occur in its      *)
(* value in lower case, each tag once; vpn.example.com carries "vpn_high". *)
(***************************************************************************)
\* the tags a value must carry
MatchingTags(value) ==
    UNION {{tier.keywords[k] \o <<"_">> \o tier.risk_level :
               k \in {l \in 1..Len(tier.keywords) : Contains(tier.keywords[l], lower(value))}} :
           tier \in Range(RISK_KEYWORDS_subdomains)}

C24_RiskKeywordTags ==
    \A i \in EntitiesOfType(T_subdomain) :
        /\ "risk_keywords" \in DOMAIN entities[i].metadata
        /\ LET tags == entities[i].metadata.risk_keywords
           IN  /\ Range(tags) = MatchingTags(entities[i].value)
               /\ Len(tags) = Cardinality(Range(tags))
               /\ entities[i].value = V_vpn_example_com
                      => <<"v","p","n","_","h","i","g","h">> \in Range(tags)

\* the parser has made the entity of vpn.example.com and an entity with tags
\* of two tiers from a value in upper case
C24_Witness ==
    /\ "parse_subdomains" \in ran
    /\ \E i \in EntitiesOfType(T_subdomain) : entities[i].value = V_vpn_example_com
    /\ \E i \in EntitiesOfType(T_subdomain) :
           /\ entities[i].value # lower(entities[i].value)
           /\ Len(entities[i].metadata.risk_keywords) = 2

(***************************************************************************)
(* C25: add_entity with a (type, normalized value) pair that no entity     *)
(* holds creates one entity under an id that no entity of the graph uses,  *)
(* raises the entity count by one, and leaves every stored entity in its   *)
(* place and unchanged: no id is reused or overwritten.                    *)
(***************************************************************************)
C25_NewPairStep ==
    /\ IsCall("add_entity")
    /\ ret'.raised = "none"
    /\ Holders(entities, ret'.args.entity_type, ret'.args.value) = {}
    => /\ ret'.id \notin EntityIds
       /\ Len(entities') = Len(entities) + 1
       /\ \A i \in 1..Len(entities) : entities'[i] = entities[i]
       /\ entities'[Len(entities')].id = ret'.id

C25_FreshIdForNewPair == [][C25_NewPairStep]_vars

\* an add_entity call has stored its entity under the id of another entity:
\* the index has two keys for one id, and one entity is gone
C25_Witness ==
    /\ ret.op = "add_entity"
    /\ ret.raised = "none"
    /\ Len(value_index) > Len(entities)
    /\ \E i, j \in 1..Len(value_index) :
           i # j /\ value_index[i].eid = value_index[j].eid

(***************************************************************************)
(* C26: first writer wins on confidence.  An add_relationship call for a   *)
(* triple that a relationship holds, with another confidence in            *)
(* [0.0, 1.0], leaves that relationship with the confidence of the first   *)
(* call, its id, endpoints and type; nothing but its metadata can change,  *)
(* and no relationship is added.                                           *)
(***************************************************************************)
C26_SecondWriterStep ==
    IsCall("add_relationship")
    => LET a == ret'.args
           held == TripleHolders(relationships, a.source_id, a.target_id, a.rel_type)
       IN  \A i \in held :
               confidence_in_range(a.confidence) /\ a.confidence # relationships[i].confidence
               => /\ ret'.raised = "none"
                  /\ Len(relationships') = Len(relationships)
                  /\ relationships'[i].confidence = relationships[i].confidence
                  /\ [relationships'[i] EXCEPT !.metadata = NoMeta]
                         = [relationships[i] EXCEPT !.metadata = NoMeta]
                  /\ \A j \in 1..Len(relationships) :
                         j # i => relationships'[j] = relationships[j]

C26_FirstWriterWins == [][C26_SecondWriterStep]_vars

\* a second writer has called with confidence 0.9 for a triple stored with
\* confidence 0.5: the relationship has 0.5
C26_Witness ==
    /\ ret.op = "add_relationship"
    /\ ret.raised = "none"
    /\ calls = 2
    /\ Len(relationships) = 1
    /\ ret.args.confidence = 90
    /\ relationships[1].confidence = 50
    /\ relationships[1].id = ret.id

(***************************************************************************)
(* C27: get_connected_entities(id) returns one entry per relationship that *)
(* has id as its source or as its target, in the order the relationships   *)
(* were inserted; the entry is the entity at the other end of the          *)
(* relationship.  It has no other entry, and it is empty when no           *)
(* relationship names id.                                                  *)
(***************************************************************************)
\* the positions of the relationships that name id
Naming(id) ==
    {i \in 1..Len(relationships) :
        relationships[i].source_id = id \/ relationships[i].target_id = id}

\* the id at the other end of a relationship that names id
OtherEnd(rel, id) == IF rel.source_id = id THEN rel.target_id ELSE rel.source_id

\* the place of position i among the positions S, in increasing order
Rank(S, i) == Cardinality({j \in S : j <= i})

C27_ConnectedEntities ==
    ret.op = "get_connected_entities"
    => LET id == ret.args.entity_id
           connected == ret.value
       IN  /\ Len(connected) = Cardinality(Naming(id))
           /\ \A i \in Naming(id) :
                  LET other == OtherEnd(relationships[i], id)
                  IN  /\ HasId(entities, other)
                      /\ connected[Rank(Naming(id), i)] = entities[Pos(entities, other)]

\* the entity asked about is the source of one relationship and the target of
\* a later one, and the list has the two other ends in that order
C27_Witness ==
    /\ ret.op = "get_connected_entities"
    /\ \E i, j \in Naming(ret.args.entity_id) :
           /\ i < j
           /\ relationships[i].source_id = ret.args.entity_id
           /\ relationships[j].target_id = ret.args.entity_id
           /\ relationships[i].target_id # relationships[j].source_id
    /\ Len(ret.value) >= 2

\* the id asked about is in no relationship of a graph that has some: the
\* list is empty
C27_WitnessNone ==
    /\ ret.op = "get_connected_entities"
    /\ relationships # <<>>
    /\ Naming(ret.args.entity_id) = {}
    /\ ret.value = <<>>

(***************************************************************************)
(* C28: get_entity_by_value with a type returns the one entity of that     *)
(* type whose normalized value is the normalized argument, and not-found   *)
(* when there is none; without a type it returns the entity inserted       *)
(* first among those of any type whose normalized value is the normalized  *)
(* argument, and not-found when there is none.                             *)
(***************************************************************************)
\* the positions of the entities of a normalized value, of one type or (None)
\* of any
Matches(norm, entity_type) ==
    {i \in 1..Len(entities) :
        /\ normalize_value(entities[i].value) = norm
        /\ entity_type # None => entities[i].type = entity_type}

C28_LookupByValue ==
    ret.op = "get_entity_by_value"
    => LET matches == Matches(normalize_value(ret.args.value), ret.args.entity_type)
       IN  /\ ret.args.entity_type # None => Cardinality(matches) <= 1
           /\ IF matches = {}
              THEN ret.value = NoEntity
              ELSE ret.value = entities[CHOOSE i \in matches : \A j \in matches : i <= j]

\* a lookup without a type for a value, spelled otherwise than stored, that
\* entities of two types have: the one inserted first is returned
C28_Witness ==
    /\ ret.op = "get_entity_by_value"
    /\ ret.args.entity_type = None
    /\ \E i, j \in Matches(normalize_value(ret.args.value), None) :
           /\ i < j
           /\ entities[i].type # entities[j].type
           /\ ret.value = entities[i]
           /\ ret.args.value # entities[i].value

\* a lookup with a type finds the entity, and one finds none of that type
\* while another type has the value
C28_WitnessTyped ==
    /\ ret.op = "get_entity_by_value"
    /\ ret.args.entity_type # None
    /\ \/ ret.value # NoEntity
       \/ Matches(normalize_value(ret.args.value), None) # {}

(***************************************************************************)
(* C29: email-subdomain correlation.  When correlate_emails_and_subdomains *)
(* has returned, for every email entity E and every subdomain entity S a   *)
(* relationship of type email_from_subdomain from E to S exists if and     *)
(* only if the text after the '@' of E's value is non-empty and is a       *)
(* substring of S's value, or S's value a substring of it; every           *)
(* relationship of that type has confidence 0.8 and metadata               *)
(* correlation_type = "domain_match".                                      *)
(***************************************************************************)
\* the text after the '@' of a value with one '@', empty for a value without
TextAfterAt(value) ==
    LET at == {i \in 1..Len(value) : value[i] = "@"}
    IN  IF at = {} THEN <<>>
        ELSE SubSeq(value, (CHOOSE i \in at : TRUE) + 1, Len(value))

\* the positions of the email_from_subdomain relationships from E to S
DomainLinks(E, S) ==
    {i \in OfType(R_email_from_subdomain) :
        relationships[i].source_id = E.id /\ relationships[i].target_id = S.id}

\* the domain part of E is inside the value of S, or the value of S inside it
DomainMatch(E, S) ==
    LET domain == TextAfterAt(E.value)
    IN  /\ domain # <<>>
        /\ \/ Contains(domain, S.value)
           \/ Contains(S.value, domain)

C29_EmailSubdomainCorrelation ==
    ret.op = "correlate_emails_and_subdomains"
    => /\ \A e \in EntitiesOfType(T_email), s \in EntitiesOfType(T_subdomain) :
              DomainLinks(entities[e], entities[s]) # {}
                  <=> DomainMatch(entities[e], entities[s])
       /\ \A i \in OfType(R_email_from_subdomain) :
              /\ relationships[i].confidence = 80
              /\ relationships[i].metadata
                     = [correlation_type |-> <<"d","o","m","a","i","n","_","m","a","t","c","h">>]

\* the correlation has linked an email to a subdomain whose value is inside
\* its domain part and not the other way round, and has left another pair
\* of the graph without a link
C29_Witness ==
    /\ ret.op = "correlate_emails_and_subdomains"
    /\ \E e \in EntitiesOfType(T_email), s \in EntitiesOfType(T_subdomain) :
           /\ DomainLinks(entities[e], entities[s]) # {}
           /\ ~Contains(TextAfterAt(entities[e].value), entities[s].value)
    /\ \E e \in EntitiesOfType(T_email), s \in EntitiesOfType(T_subdomain) :
           DomainLinks(entities[e], entities[s]) = {}

(***************************************************************************)
(* C30: every hosted_on relationship that the web-endpoint parser makes    *)
(* goes from a url entity to an entity of type domain or subdomain whose   *)
(* normalized value is the host extracted from the URL; an endpoint whose  *)
(* host is the value of no domain or subdomain entity gets no hosted_on    *)
(* relationship.                                                           *)
(***************************************************************************)
\* the entity stored under an id
EntityOf(id) == entities[Pos(entities, id)]

\* the entity is a domain or a subdomain whose normalized value is the host
\* of the url
HostsUrl(entity, url) ==
    /\ entity.type \in {T_domain, T_subdomain}
    /\ normalize_value(entity.value) = normalize_value(extract_domain_from_url(url))

C30_HostedOnDomainOrSubdomain ==
    /\ \A i \in OfType(R_hosted_on) :
           /\ EntityOf(relationships[i].source_id).type = T_url
           /\ HostsUrl(EntityOf(relationships[i].target_id),
                       EntityOf(relationships[i].source_id).value)
    /\ \A u \in EntitiesOfType(T_url) :
           (\A e \in 1..Len(entities) : ~HostsUrl(entities[e], entities[u].value))
           => \A i \in OfType(R_hosted_on) : relationships[i].source_id # entities[u].id

\* the web-endpoint parser has made a hosted_on relationship from a url to the
\* subdomain entity of its host
C30_Witness ==
    /\ "parse_web_endpoints" \in ran \/ "parse_all" \in ran
    /\ \E i \in OfType(R_hosted_on) :
           LET url == EntityOf(relationships[i].source_id)
               host == EntityOf(relationships[i].target_id)
           IN  /\ url.type = T_url
               /\ host.type = T_subdomain
               /\ HostsUrl(host, url.value)

====
